---- MODULE Spec2Model ----
(***************************************************************************)
(* The document-store shim of backend/server.py: one collection           *)
(* (mongo_db.coaches) served either by the in-memory DemoCollection or by  *)
(* the SupabaseCollection adapter, and the calls                           *)
(* find_one / find / insert_one / update_one / delete_one /                *)
(* count_documents / create_index made on it.                              *)
(***************************************************************************)
EXTENDS Integers, Sequences, FiniteSets, TLC

VARIABLES
    backend,        \* which class mongo_db is bound to: "demo" | "supabase"
    demo_storage,   \* _demo_storage['coaches']: the in-memory list of documents
    table,          \* the rows of the remote table 'coaches' (Supabase adapter)
    pre,            \* history: the collection as it was before the last call
    last,           \* history: the last completed call, its arguments and what it returned
    tasks,          \* the coroutines of concurrent callers: their call and how far it got
    initial,        \* history: the collection when the concurrent callers were started
    config,         \* the environment the module is loaded in (os.environ, installed packages)
    process,        \* how far the module is loaded, USE_SUPABASE, supabase_client
    registry,       \* DemoDB._collections / SupabaseDB._tables: the handle cached for a name
    obtained,       \* history: the handles that were handed out
    reported,       \* history: what root() / health_check() answered last
    db,             \* the collections the request handlers work on, by name
    response,       \* history: the last request a handler answered, and its answer
    uuid,           \* how many uuid4() values are in use as the id of a document
    clock           \* datetime.now(timezone.utc), in days

\* the variables of the calls on one collection
storeVars == <<demo_storage, table, pre, last, tasks, initial>>

\* the variables of the loading of the module and of the handle registry
processVars == <<config, process, registry, obtained, reported>>

\* the variables of the request handlers
appVars == <<db, response, uuid, clock>>

vars == <<backend, storeVars, processVars, appVars>>

----------------------------------------------------------------------------
(* Bounds of the model *)

\* the collection holds at most MaxDocs documents
MaxDocs == 2

\* the number of callers that run concurrently
MaxTasks == 2

----------------------------------------------------------------------------
(* Documents.  A coach document as coach_register builds it; the fields the *)
(* store calls of the claims read and write.                                *)

Fields == {"id", "email", "is_verified", "saved_players", "created_at"}

Ids == {1, 2}
Emails == {1, 2}
PlayerIds == {1, 2}

\* an element of saved_players, as save_player builds it
SavedEntry(p, n) == [player_id |-> p, notes |-> n]

\* the saved_players array of a coach who saved player 1, player 2 and
\* player 1 again
SavedTwice == <<SavedEntry(1, 1), SavedEntry(2, 1), SavedEntry(1, 2)>>

\* created_at: a datetime object, or the string isoformat() makes of it
\* (every handler of server.py stores datetime.now(...).isoformat())
\* a timestamp is written as its type and the instant it names
DatetimeValue == [type |-> "datetime", instant |-> 0]
IsoString == [type |-> "str", instant |-> 0]
\* datetime.now(timezone.utc).isoformat() at instant n
IsoInstant(n) == [type |-> "str", instant |-> n]

\* a coach as coach_register inserts it (saved_players: []), in every
\* combination of id, email and is_verified
ScalarDocs ==
    [id : Ids, email : Emails, is_verified : BOOLEAN,
     saved_players : {<<>>}, created_at : {IsoString}]

\* a coach document that holds saved players
ArrayDocs ==
    [id : Ids, email : {1}, is_verified : {TRUE},
     saved_players : {SavedTwice}, created_at : {IsoString}]

\* a document that carries a datetime object
DatetimeDocs ==
    [id : {1}, email : {2}, is_verified : {FALSE},
     saved_players : {<<>>}, created_at : {DatetimeValue}]

Docs == ScalarDocs \cup ArrayDocs \cup DatetimeDocs

----------------------------------------------------------------------------
(* Queries and updates: Python dicts.  A query maps a key to an operand;    *)
(* the operand is a plain value (t = "val") or a Mongo operator expression  *)
(* (a dict such as {"$ne": x}, or the list under "$or").                    *)

Val(x) == [t |-> "val", v |-> x]
OrList(P1, P2) == [t |-> "list", v |-> <<P1, P2>>]

EmptyQuery == <<>>
ById(i) == ("id" :> Val(i))
ByEmail(e) == ("email" :> Val(e))
ByVerified(b) == ("is_verified" :> Val(b))
OrQuery(P1, P2) == ("$or" :> OrList(P1, P2))

IdQueries == {ById(i) : i \in Ids}
\* the predicates update_one is called with: by id, and by a field several
\* documents can share
UpdateQueries == IdQueries \cup {ByVerified(FALSE)}
OrQueries == {OrQuery(ById(1), ByVerified(TRUE))}
Queries == {EmptyQuery} \cup IdQueries \cup {ByVerified(TRUE)} \cup OrQueries

\* updates: {"$set": S}, {"$push": {"saved_players": entry}},
\* {"$pull": {"saved_players": {"player_id": p}}}
SetFields(S) == ("$set" :> S)
AppendToArray(f, e) == ("$push" :> (f :> e))
RemoveFromArray(f, p) == ("$pull" :> (f :> [player_id |-> p]))

SetPayloads ==
    {("is_verified" :> TRUE),
     ("email" :> 2),
     ("is_verified" :> FALSE) @@ ("email" :> 1)}

Updates ==
    {SetFields(S) : S \in SetPayloads}
    \cup {AppendToArray("saved_players", SavedEntry(2, 2))}
    \cup {RemoveFromArray("saved_players", 1)}

----------------------------------------------------------------------------
(* What a call returns *)

None == [t |-> "None", v |-> <<>>]
Document(d) == [t |-> "document", v |-> d]
DocumentList(s) == [t |-> "list", v |-> s]
Count(n) == [t |-> "int", v |-> n]
InsertResult(i) == [t |-> "inserted_id", v |-> i]
ModifiedCount(n) == [t |-> "modified_count", v |-> n]
DeletedCount(n) == [t |-> "deleted_count", v |-> n]
Raised == [t |-> "raise", v |-> <<>>]

\* what a call leaves and returns; failed: the call ended in its except branch
Outcome(items, result) == [storage |-> items, result |-> result, failed |-> FALSE]
Failure(items, result) == [storage |-> items, result |-> result, failed |-> TRUE]

----------------------------------------------------------------------------
(* DemoCollection *)

\* item.get(k) == v
\* A missing key gives None, which equals no operand of the model; a stored
\* value is a number, a boolean, a string or a list of entries and equals no
\* operator dict and no list of sub-queries.
ItemGetEquals(item, k, operand) ==
    /\ operand.t = "val"
    /\ k \in DOMAIN item
    /\ item[k] = operand.v

\* all(item.get(k) == v for k, v in query.items())
DemoMatch(item, query) == \A k \in DOMAIN query : ItemGetEquals(item, k, query[k])

\* the index of the first item the loop `for item in items` matches, 0 if none
FirstMatch(items, query) ==
    IF \E i \in 1..Len(items) : DemoMatch(items[i], query)
    THEN CHOOSE i \in 1..Len(items) :
            /\ DemoMatch(items[i], query)
            /\ \A j \in 1..(i - 1) : ~DemoMatch(items[j], query)
    ELSE 0

\* the list comprehension [item for item in items if <match>]
RECURSIVE Filter(_, _)
Filter(items, query) ==
    IF items = <<>> THEN <<>>
    ELSE IF DemoMatch(Head(items), query)
         THEN <<Head(items)>> \o Filter(Tail(items), query)
         ELSE Filter(Tail(items), query)

\* dict.update(S)
DictUpdate(item, S) ==
    [k \in DOMAIN item \cup DOMAIN S |-> IF k \in DOMAIN S THEN S[k] ELSE item[k]]

\* find_one with the return outside the test: the first item, whatever it is
DemoFindOne_FirstItem(items, query) ==
    Outcome(items, IF items = <<>> THEN None ELSE Document(items[1]))

DemoFindOne(items, query) ==
    LET i == FirstMatch(items, query) IN
    Outcome(items, IF i = 0 THEN None ELSE Document(items[i]))

DemoFind(items, query) ==
    IF DOMAIN query = {}
    THEN Outcome(items, DocumentList(items))
    ELSE Outcome(items, DocumentList(Filter(items, query)))

DemoInsertOne(items, document) ==
    Outcome(Append(items, document), InsertResult(document.id))

\* update_one that does not return after the first match: every match is updated
DemoUpdateOne_EveryMatch(items, query, update) ==
    IF FirstMatch(items, query) = 0 THEN Outcome(items, ModifiedCount(0))
    ELSE IF "$set" \in DOMAIN update
         THEN Outcome([i \in 1..Len(items) |->
                          IF DemoMatch(items[i], query)
                          THEN DictUpdate(items[i], update["$set"])
                          ELSE items[i]],
                      ModifiedCount(1))
         ELSE Outcome(items, ModifiedCount(1))

\* update_one that takes the match out of the list and appends the updated copy
DemoUpdateOne_MoveToEnd(items, query, update) ==
    LET i == FirstMatch(items, query) IN
    IF i = 0 THEN Outcome(items, ModifiedCount(0))
    ELSE IF "$set" \in DOMAIN update
         THEN Outcome(SubSeq(items, 1, i - 1) \o SubSeq(items, i + 1, Len(items))
                          \o <<DictUpdate(items[i], update["$set"])>>,
                      ModifiedCount(1))
         ELSE Outcome(items, ModifiedCount(1))

DemoUpdateOne(items, query, update) ==
    LET i == FirstMatch(items, query) IN
    IF i = 0 THEN Outcome(items, ModifiedCount(0))
    ELSE IF "$set" \in DOMAIN update
         THEN Outcome([items EXCEPT ![i] = DictUpdate(items[i], update["$set"])],
                      ModifiedCount(1))
         ELSE Outcome(items, ModifiedCount(1))

DemoDeleteOne(items, query) ==
    LET i == FirstMatch(items, query) IN
    IF i = 0 THEN Outcome(items, DeletedCount(0))
    ELSE Outcome(SubSeq(items, 1, i - 1) \o SubSeq(items, i + 1, Len(items)),
                 DeletedCount(1))

DemoCountDocuments(items, query) ==
    IF DOMAIN query = {}
    THEN Outcome(items, Count(Len(items)))
    ELSE Outcome(items, Count(Len(Filter(items, query))))

\* pass
DemoCreateIndex(items, key, unique) == Outcome(items, None)

----------------------------------------------------------------------------
(* The remote table behind supabase_client.table('coaches'): what the      *)
(* service does with a request of the adapter.                              *)

\* the columns of the tables; a filter or a patch on any other name is
\* answered with an error, which execute() raises
Columns ==
    Fields \cup {"password_hash", "is_active", "role", "subscription_tier",
                 "subscription_status", "subscription_started",
                 "subscription_expires", "subscription_session_id",
                 "player_key", "verified", "sender_id", "recipient_type",
                 "recipient_id", "session_id", "intake_submission_id", "status",
                 "payment_status", "payment_session_id", "amount_paid",
                 "updated_at"}

\* the constraints of a table as backend/models.py declares them: id is the
\* primary key of every table, email is unique in staff_users and
\* player_key in players; models.py
\* declares no table coaches, for which only the primary key is taken
TableUnique(name) ==
    CASE name = "staff_users" -> {"id", "email"}
      [] name = "players" -> {"id", "player_key"}
      [] name = "payment_transactions" -> {"id", "session_id"}
      [] OTHER -> {"id"}

\* two rows share the value of a column that is declared unique
ViolatesConstraints(rows, unique) ==
    \E i, j \in 1..Len(rows) :
        /\ i # j
        /\ \E c \in unique : rows[i][c] = rows[j][c]

\* qb.eq(key, value) for every item of the query: the rows a request is about
RowMatches(row, query) ==
    \A k \in DOMAIN query :
        query[k].t = "val" /\ k \in DOMAIN row /\ row[k] = query[k].v

RECURSIVE SelectRows(_, _)
SelectRows(rows, query) ==
    IF rows = <<>> THEN <<>>
    ELSE IF RowMatches(Head(rows), query)
         THEN <<Head(rows)>> \o SelectRows(Tail(rows), query)
         ELSE SelectRows(Tail(rows), query)

\* .update(patch) with the filters of query: every row they select is patched
PatchRows(rows, query, patch) ==
    [i \in 1..Len(rows) |->
        IF RowMatches(rows[i], query)
        THEN [k \in DOMAIN rows[i] \cup DOMAIN patch |->
                IF k \in DOMAIN patch THEN patch[k] ELSE rows[i][k]]
        ELSE rows[i]]

\* .delete() with the filters of query: every row they select is deleted
RECURSIVE RemoveRows(_, _)
RemoveRows(rows, query) ==
    IF rows = <<>> THEN <<>>
    ELSE IF RowMatches(Head(rows), query)
         THEN RemoveRows(Tail(rows), query)
         ELSE <<Head(rows)>> \o RemoveRows(Tail(rows), query)

----------------------------------------------------------------------------
(* SupabaseCollection.  `unavailable`: the service cannot be reached, so   *)
(* execute() raises.                                                        *)

\* datetime.isoformat()
isoformat(v) == IF v.type = "datetime" THEN [v EXCEPT !.type = "str"] ELSE v

\* insert_one's loop over document.items(): datetime values become strings
Serialize(document) ==
    [k \in DOMAIN document |->
        IF k = "created_at" THEN isoformat(document[k]) ELSE document[k]]

\* execute() raises: the service is unreachable or rejects the request
SelectRaises(query, unavailable) ==
    unavailable \/ ~(DOMAIN query \subseteq Columns)

SupabaseFindOne(rows, query, unavailable) ==
    IF SelectRaises(query, unavailable) THEN Failure(rows, None)
    ELSE LET data == SelectRows(rows, query) IN
         IF Len(data) > 0 THEN Outcome(rows, Document(data[1]))
         ELSE Outcome(rows, None)

SupabaseFind(rows, query, unavailable) ==
    IF SelectRaises(query, unavailable) THEN Failure(rows, DocumentList(<<>>))
    ELSE Outcome(rows, DocumentList(SelectRows(rows, query)))

SupabaseInsertOne(rows, document, unavailable, unique) ==
    LET doc == Serialize(document) IN
    IF unavailable \/ ViolatesConstraints(Append(rows, doc), unique)
    THEN Failure(rows, Raised)
    ELSE Outcome(Append(rows, doc), InsertResult(doc.id))

SupabaseUpdateOne(rows, query, update, unavailable, unique) ==
    LET patch == IF "$set" \in DOMAIN update THEN update["$set"] ELSE update
        patched == PatchRows(rows, query, patch)
    IN  IF \/ SelectRaises(query, unavailable)
           \/ ~(DOMAIN patch \subseteq Columns)
           \/ ViolatesConstraints(patched, unique)
        THEN Failure(rows, ModifiedCount(0))
        ELSE Outcome(patched, ModifiedCount(Len(SelectRows(rows, query))))

SupabaseDeleteOne(rows, query, unavailable) ==
    IF SelectRaises(query, unavailable) THEN Failure(rows, DeletedCount(0))
    ELSE Outcome(RemoveRows(rows, query), DeletedCount(Len(SelectRows(rows, query))))

SupabaseCountDocuments(rows, query, unavailable) ==
    IF SelectRaises(query, unavailable) THEN Failure(rows, Count(0))
    ELSE Outcome(rows, Count(Len(SelectRows(rows, query))))

\* pass
SupabaseCreateIndex(rows, key, unique) == Outcome(rows, None)

----------------------------------------------------------------------------
(* The calls on mongo_db.coaches.  mongo_db is DemoDB() or                  *)
(* SupabaseDB(supabase_client), bound once when the module is loaded; the   *)
(* unique index on coaches.email has been declared by startup().            *)

NoDoc == <<>>
NoUpdate == <<>>
UniqueDeclared == {"email"}

Call(op, query, document, update, failed, result) ==
    [op |-> op, query |-> query, document |-> document, update |-> update,
     failed |-> failed, result |-> result]

\* the documents of the collection the handle is bound to
Collection == IF backend = "demo" THEN demo_storage ELSE table

\* the module is loaded and no handle is looked at
Loaded ==
    /\ config = <<>>
    /\ process = <<>>
    /\ registry = <<>>
    /\ obtained = {}
    /\ reported = <<>>

\* no request handler has run
NoRequests ==
    /\ db = <<>>
    /\ response = <<>>
    /\ uuid = 0
    /\ clock = 0

Init ==
    /\ backend \in {"demo", "supabase"}
    /\ demo_storage = <<>>
    /\ table = <<>>
    /\ pre = <<>>
    /\ last = Call("startup", EmptyQuery, NoDoc, NoUpdate, FALSE, None)
    /\ tasks = <<>>
    /\ initial = <<>>
    /\ Loaded
    /\ NoRequests

\* a call completes with outcome `out`
Complete(op, query, document, update, out) ==
    /\ pre' = Collection
    /\ IF backend = "demo"
       THEN demo_storage' = out.storage /\ table' = table
       ELSE table' = out.storage /\ demo_storage' = demo_storage
    /\ last' = Call(op, query, document, update, out.failed, out.result)
    /\ UNCHANGED <<backend, tasks, initial, processVars, appVars>>

\* the in-memory backend makes no remote request
Reachability == IF backend = "demo" THEN {FALSE} ELSE BOOLEAN

find_one ==
    \E q \in Queries, unavailable \in Reachability :
        Complete("find_one", q, NoDoc, NoUpdate,
                 IF backend = "demo"
                 THEN DemoFindOne(demo_storage, q)
                 ELSE SupabaseFindOne(table, q, unavailable))

find ==
    \E q \in Queries, unavailable \in Reachability :
        Complete("find", q, NoDoc, NoUpdate,
                 IF backend = "demo"
                 THEN DemoFind(demo_storage, q)
                 ELSE SupabaseFind(table, q, unavailable))

insert_one ==
    \E d \in Docs, unavailable \in Reachability :
        /\ Len(Collection) < MaxDocs
        /\ Complete("insert_one", EmptyQuery, d, NoUpdate,
                    IF backend = "demo"
                    THEN DemoInsertOne(demo_storage, d)
                    ELSE SupabaseInsertOne(table, d, unavailable, TableUnique("coaches")))

update_one ==
    \E q \in UpdateQueries, u \in Updates, unavailable \in Reachability :
        Complete("update_one", q, NoDoc, u,
                 IF backend = "demo"
                 THEN DemoUpdateOne(demo_storage, q, u)
                 ELSE SupabaseUpdateOne(table, q, u, unavailable, TableUnique("coaches")))

delete_one ==
    \E q \in IdQueries, unavailable \in Reachability :
        Complete("delete_one", q, NoDoc, NoUpdate,
                 IF backend = "demo"
                 THEN DemoDeleteOne(demo_storage, q)
                 ELSE SupabaseDeleteOne(table, q, unavailable))

count_documents ==
    \E q \in Queries, unavailable \in Reachability :
        Complete("count_documents", q, NoDoc, NoUpdate,
                 IF backend = "demo"
                 THEN DemoCountDocuments(demo_storage, q)
                 ELSE SupabaseCountDocuments(table, q, unavailable))

create_index ==
    \E key \in UniqueDeclared :
        Complete("create_index", EmptyQuery, NoDoc, NoUpdate,
                 IF backend = "demo"
                 THEN DemoCreateIndex(demo_storage, key, TRUE)
                 ELSE SupabaseCreateIndex(table, key, TRUE))

Next ==
    \/ find_one
    \/ find
    \/ insert_one
    \/ update_one
    \/ delete_one
    \/ count_documents
    \/ create_index

Spec == Init /\ [][Next]_vars

----------------------------------------------------------------------------
(* Concurrent callers of the in-memory collection.  Each request handler is *)
(* a coroutine on the one event loop; it gives up control only at an await  *)
(* that suspends.                                                           *)

Tasks == 1..MaxTasks

\* the document the concurrent callers find in the collection, and the ones
\* they insert
StoredCoach ==
    [id |-> 1, email |-> 1, is_verified |-> FALSE, saved_players |-> <<>>,
     created_at |-> IsoString]
NewCoach(e) ==
    [id |-> 2, email |-> e, is_verified |-> FALSE, saved_players |-> <<>>,
     created_at |-> IsoString]

Request(op, query, document, update) ==
    [op |-> op, query |-> query, document |-> document, update |-> update]

\* the mutating calls the callers make
MutatingCalls ==
    {Request("insert_one", EmptyQuery, NewCoach(e), NoUpdate) : e \in Emails}
    \cup {Request("update_one", ById(1), NoDoc, SetFields(S)) : S \in SetPayloads}
    \cup {Request("delete_one", ById(1), NoDoc, NoUpdate),
          Request("create_index", EmptyQuery, NoDoc, NoUpdate)}

\* what the body of the called method makes of the list
Apply(call, items) ==
    CASE call.op = "insert_one" -> DemoInsertOne(items, call.document)
      [] call.op = "update_one" -> DemoUpdateOne(items, call.query, call.update)
      [] call.op = "delete_one" -> DemoDeleteOne(items, call.query)
      [] call.op = "create_index" -> DemoCreateIndex(items, "email", TRUE)

\* a method whose body awaited between reading the list and writing it
SuspendsInside_Awaits(op) == op \in {"insert_one", "update_one", "delete_one"}

\* whether the body of the method holds an await at which the coroutine can
\* be suspended: the bodies of DemoCollection's methods hold none
SuspendsInside(op) == FALSE

InitConcurrent ==
    /\ backend = "demo"
    /\ initial \in {<<>>, <<StoredCoach>>}
    /\ demo_storage = initial
    /\ table = <<>>
    /\ pre = <<>>
    /\ last = Call("startup", EmptyQuery, NoDoc, NoUpdate, FALSE, None)
    /\ tasks \in [Tasks -> [call : MutatingCalls, pc : {"pending"}, items : {<<>>}]]
    /\ Loaded
    /\ NoRequests

\* the event loop runs coroutine t up to its next suspension
Resume(t) ==
    /\ tasks[t].pc # "done"
    /\ IF tasks[t].pc = "pending" /\ SuspendsInside(tasks[t].call.op)
       THEN /\ tasks' = [tasks EXCEPT ![t].pc = "suspended", ![t].items = demo_storage]
            /\ UNCHANGED demo_storage
       ELSE /\ demo_storage' =
                    Apply(tasks[t].call,
                          IF tasks[t].pc = "suspended" THEN tasks[t].items
                          ELSE demo_storage).storage
            /\ tasks' = [tasks EXCEPT ![t].pc = "done", ![t].items = <<>>]
    /\ UNCHANGED <<backend, table, pre, last, initial, processVars, appVars>>

NextConcurrent == \E t \in Tasks : Resume(t)

SpecConcurrent == InitConcurrent /\ [][NextConcurrent]_vars

----------------------------------------------------------------------------
(* The document database behind mongo_client[db_name] (Motor).  server.py   *)
(* holds no code for it: what its collections do with a call is taken from  *)
(* the store contract (find_one: first match in storage order; insert_one:  *)
(* appends, DuplicateKeyError on a unique index; update_one: first match,   *)
(* with the native array operators; failures of the network raise).         *)

\* the operand {"$ne": x}
Ne(x) == [t |-> "ne", v |-> x]
\* the operand {"$gt": x}
Gt(x) == [t |-> "gt", v |-> x]

\* the unique indexes startup() declares on a collection
IndexUnique(name) ==
    CASE name \in {"coaches", "staff_users"} -> {"email"}
      [] name = "players" -> {"player_key"}
      [] OTHER -> {}

\* the values a (dotted) path of a query reaches in a document
PathValues(doc, k) ==
    IF k = "saved_players.player_id"
    THEN {doc.saved_players[i].player_id : i \in 1..Len(doc.saved_players)}
    ELSE IF k \in DOMAIN doc THEN {doc[k]} ELSE {}

\* text is a sequence of characters; the letters of the model and their
\* lower case (str.lower(), re.IGNORECASE)
LowerCase ==
    [c \in {"A", "B", "a", "b", "e", "n"} |->
        CASE c = "A" -> "a" [] c = "B" -> "b" [] OTHER -> c]
Lower(text) == [i \in 1..Len(text) |-> LowerCase[text[i]]]

\* the operand {"$regex": pattern, "$options": "i"}: the pattern (plain
\* characters) occurs in the text, case ignored
Regex(pattern) == [t |-> "regex", v |-> pattern]
RegexSearch(pattern, text) ==
    \E at \in 1..(Len(text) - Len(pattern) + 1) :
        SubSeq(Lower(text), at, at + Len(pattern) - 1) = Lower(pattern)

RECURSIVE MongoMatch(_, _)
MongoMatch(doc, query) ==
    \A k \in DOMAIN query :
        CASE query[k].t = "val" -> query[k].v \in PathValues(doc, k)
          [] query[k].t = "ne" -> query[k].v \notin PathValues(doc, k)
          [] query[k].t = "gt" -> \E x \in PathValues(doc, k) : x > query[k].v
          [] query[k].t = "regex" ->
                \E text \in PathValues(doc, k) : RegexSearch(query[k].v, text)
          [] query[k].t = "list" /\ k = "$or" ->
                \E i \in 1..Len(query[k].v) : MongoMatch(doc, query[k].v[i])
          [] OTHER -> FALSE

MongoFirstMatch(docs, query) ==
    IF \E i \in 1..Len(docs) : MongoMatch(docs[i], query)
    THEN CHOOSE i \in 1..Len(docs) :
            /\ MongoMatch(docs[i], query)
            /\ \A j \in 1..(i - 1) : ~MongoMatch(docs[j], query)
    ELSE 0

\* "$push": the value is appended to the array
ArrayPush(doc, push) ==
    [k \in DOMAIN doc |-> IF k \in DOMAIN push THEN Append(doc[k], push[k]) ELSE doc[k]]

\* "$pull": every element with the player_id of the condition is removed
ArrayPull(doc, pull) ==
    [k \in DOMAIN doc |->
        IF k \in DOMAIN pull
        THEN SelectSeq(doc[k], LAMBDA e : e.player_id # pull[k].player_id)
        ELSE doc[k]]

\* "$set" of "saved_players.$.notes": the notes of the first element the
\* query's condition on saved_players.player_id selected
PositionalSet(doc, query, S) ==
    LET array == doc.saved_players
        p == query["saved_players.player_id"].v
        at == CHOOSE i \in 1..Len(array) :
                /\ array[i].player_id = p
                /\ \A j \in 1..(i - 1) : array[j].player_id # p
    IN  [doc EXCEPT !.saved_players =
            [array EXCEPT ![at] = [@ EXCEPT !.notes = S["saved_players.$.notes"]]]]

MongoApply(doc, query, update) ==
    CASE "$push" \in DOMAIN update -> ArrayPush(doc, update["$push"])
      [] "$pull" \in DOMAIN update -> ArrayPull(doc, update["$pull"])
      [] "$set" \in DOMAIN update /\ "saved_players.$.notes" \in DOMAIN update["$set"]
            -> PositionalSet(doc, query, update["$set"])
      [] "$set" \in DOMAIN update -> DictUpdate(doc, update["$set"])
      [] OTHER -> doc

MongoFindOne(docs, query, unavailable) ==
    IF unavailable THEN Failure(docs, Raised)
    ELSE LET i == MongoFirstMatch(docs, query) IN
         Outcome(docs, IF i = 0 THEN None ELSE Document(docs[i]))

MongoFind(docs, query, unavailable) ==
    IF unavailable THEN Failure(docs, Raised)
    ELSE Outcome(docs, DocumentList(SelectSeq(docs, LAMBDA d : MongoMatch(d, query))))

MongoCountDocuments(docs, query, unavailable) ==
    IF unavailable THEN Failure(docs, Raised)
    ELSE Outcome(docs, Count(Len(SelectSeq(docs, LAMBDA d : MongoMatch(d, query)))))

MongoInsertOne(docs, document, unique, unavailable) ==
    IF unavailable \/ ViolatesConstraints(Append(docs, document), unique)
    THEN Failure(docs, Raised)
    ELSE Outcome(Append(docs, document), InsertResult(document.id))

MongoUpdateOne(docs, query, update, unique, unavailable) ==
    LET i == MongoFirstMatch(docs, query) IN
    IF unavailable THEN Failure(docs, Raised)
    ELSE IF i = 0 THEN Outcome(docs, ModifiedCount(0))
    ELSE LET changed == [docs EXCEPT ![i] = MongoApply(docs[i], query, update)] IN
         IF ViolatesConstraints(changed, unique) THEN Failure(docs, Raised)
         ELSE Outcome(changed, ModifiedCount(IF changed = docs THEN 0 ELSE 1))

\* cursor.sort("created_at", -1): newest first, ties in storage order
RECURSIVE SortNewestFirst(_)
SortNewestFirst(list) ==
    IF list = <<>> THEN <<>>
    ELSE LET newest == CHOOSE i \in 1..Len(list) :
                          /\ \A j \in 1..Len(list) :
                                list[j].created_at.instant <= list[i].created_at.instant
                          /\ \A j \in 1..(i - 1) :
                                list[j].created_at.instant < list[i].created_at.instant
         IN  <<list[newest]>>
                \o SortNewestFirst(SubSeq(list, 1, newest - 1)
                                   \o SubSeq(list, newest + 1, Len(list)))

\* cursor.skip(skip).limit(n).to_list(n)
SkipLimit(list, skip, n) ==
    SubSeq(list, skip + 1, IF skip + n < Len(list) THEN skip + n ELSE Len(list))

----------------------------------------------------------------------------
(* Loading of the module: the backend mongo_db is bound to, the registry of *)
(* collection handles behind it, and the endpoints that report the backend. *)

\* the handle objects a process creates
MaxHandles == 3

\* DATABASE_URL: not set, the placeholder of the sample .env, or a real URL
DatabaseUrls == {"unset", "placeholder", "postgres"}

\* os.environ, the installed packages and the interpreter:
\*   supabase_keys         SUPABASE_URL and SUPABASE_ANON_KEY / SUPABASE_KEY are set
\*   HAS_SUPABASE          `from supabase import create_client, Client` succeeded
\*   create_client_raises  create_client(...) raises
\*   annotations_evaluated the interpreter evaluates the annotation of a
\*                         module-level assignment when it executes it
\*                         (Python up to 3.13; later versions defer it)
Configurations ==
    [DEMO_MODE : BOOLEAN, DATABASE_URL : DatabaseUrls, supabase_keys : BOOLEAN,
     HAS_SUPABASE : BOOLEAN, create_client_raises : BOOLEAN,
     annotations_evaluated : BOOLEAN]

\* DATABASE_URL and 'YOUR_PASSWORD_HERE' not in DATABASE_URL
\*              and 'placeholder' not in DATABASE_URL.lower(), as a truth value
UseSupabase(cfg) == cfg.DATABASE_URL = "postgres"

\* `supabase_client: Optional[Client] = None` names Client, which is not
\* defined when the import of supabase failed: NameError if the annotation is
\* evaluated
AnnotationRaises(cfg) == ~cfg.HAS_SUPABASE /\ cfg.annotations_evaluated

\* keys: the keys of _demo_storage
Process(pc, use, client, objects, keys) ==
    [pc |-> pc, USE_SUPABASE |-> use, supabase_client |-> client, objects |-> objects,
     keys |-> keys]

\* collection names: those of _demo_storage the handlers use, and a
\* sub-collection name as DemoCollection.__getattr__ composes it
TopNames == {<<"coaches">>, <<"staff_users">>}
Attributes == {"archive"}
Names == TopNames \cup {Append(n, a) : n \in TopNames, a \in Attributes}

\* the class of the object mongo_db is bound to
DatabaseClass ==
    CASE backend = "demo" -> "DemoDB"
      [] backend = "supabase" -> "SupabaseDB"
      [] backend = "mongodb" -> "AsyncIOMotorDatabase"
      [] OTHER -> "None"

\* a registry that wraps only the tables it knows and hands out in-memory
\* collections for every other name
CollectionClass_FallbackToDemo(database, name) ==
    CASE database = "DemoDB" -> "DemoCollection"
      [] database = "SupabaseDB" ->
            IF name = <<"coaches">> THEN "SupabaseCollection" ELSE "DemoCollection"
      [] OTHER -> "AsyncIOMotorCollection"

\* the class of the handle a database object creates for a name
CollectionClass(database, name) ==
    CASE database = "DemoDB" -> "DemoCollection"
      [] database = "SupabaseDB" -> "SupabaseCollection"
      [] OTHER -> "AsyncIOMotorCollection"

\* the backend a handle of a class works on
BackendOf(class) ==
    CASE class = "DemoCollection" -> "demo"
      [] class = "SupabaseCollection" -> "supabase"
      [] OTHER -> "mongodb"

\* a handle: the object (numbered in the order of creation; 0: an object of
\* the Motor driver, whose identity server.py does not decide), its class and
\* the name it was created with, which is the key of _demo_storage or the
\* table it works on
Handle(name, instance, class) == [name |-> name, instance |-> instance, class |-> class]

InitProcess ==
    /\ backend = "none"
    /\ config \in Configurations
    /\ process = Process("supabase_client", FALSE, FALSE, 0, TopNames)
    /\ registry = [n \in Names |-> 0]
    /\ obtained = {}
    /\ reported = <<>>
    /\ demo_storage = <<>>
    /\ table = <<>>
    /\ pre = <<>>
    /\ last = Call("startup", EmptyQuery, NoDoc, NoUpdate, FALSE, None)
    /\ tasks = <<>>
    /\ initial = <<>>
    /\ NoRequests

\* lines 76-95: USE_SUPABASE and supabase_client
InitSupabaseClient ==
    /\ process.pc = "supabase_client"
    /\ IF AnnotationRaises(config)
       THEN process' = Process("crashed", UseSupabase(config), FALSE, 0, TopNames)
       ELSE IF UseSupabase(config) /\ config.HAS_SUPABASE
       THEN IF config.supabase_keys
            THEN IF config.create_client_raises
                 THEN process' = Process("mongo_db", FALSE, FALSE, 0, TopNames)
                 ELSE process' = Process("mongo_db", TRUE, TRUE, 0, TopNames)
            ELSE process' = Process("mongo_db", FALSE, FALSE, 0, TopNames)
       ELSE process' = Process("mongo_db", UseSupabase(config), FALSE, 0, TopNames)
    /\ UNCHANGED <<backend, config, registry, obtained, reported, storeVars, appVars>>

\* lines 98-204: mongo_db = DemoDB() or mongo_client[db_name]
BindMongoDb ==
    /\ process.pc = "mongo_db"
    /\ backend' = IF config.DEMO_MODE THEN "demo" ELSE "mongodb"
    /\ process' = [process EXCEPT !.pc = "supabase_db"]
    /\ UNCHANGED <<config, registry, obtained, reported, storeVars, appVars>>

\* lines 211-329: mongo_db = SupabaseDB(supabase_client)
BindSupabaseDb ==
    /\ process.pc = "supabase_db"
    /\ backend' = IF process.USE_SUPABASE /\ process.supabase_client
                  THEN "supabase" ELSE backend
    /\ process' = [process EXCEPT !.pc = "running"]
    /\ UNCHANGED <<config, registry, obtained, reported, storeVars, appVars>>

\* mongo_db[name], mongo_db.<name>: DemoDB.__getitem__ / SupabaseDB.__getitem__
\* create the handle at the first request and keep it
handle_for ==
    \E name \in Names :
        /\ process.pc = "running"
        /\ LET class == CollectionClass(DatabaseClass, name) IN
           IF backend = "mongodb"
           THEN /\ obtained' = obtained \cup {Handle(name, 0, class)}
                /\ UNCHANGED <<registry, process>>
           ELSE IF registry[name] # 0
           THEN /\ obtained' = obtained \cup {Handle(name, registry[name], class)}
                /\ UNCHANGED <<registry, process>>
           ELSE /\ process.objects < MaxHandles
                /\ process' = [process EXCEPT
                                  !.objects = @ + 1,
                                  !.keys = IF backend = "demo" THEN @ \cup {name} ELSE @]
                /\ registry' = [registry EXCEPT ![name] = process.objects + 1]
                /\ obtained' = obtained \cup {Handle(name, process.objects + 1, class)}
        /\ UNCHANGED <<backend, config, reported, storeVars, appVars>>

\* <handle>.<attribute> on an in-memory handle: DemoCollection.__getattr__
\* returns DemoCollection(f"{self.name}.{name}")
sub_collection ==
    \E h \in obtained, a \in Attributes :
        /\ process.pc = "running"
        /\ h.class = "DemoCollection"
        /\ Append(h.name, a) \in Names
        /\ process.objects < MaxHandles
        /\ process' = [process EXCEPT !.objects = @ + 1, !.keys = @ \cup {Append(h.name, a)}]
        /\ obtained' = obtained \cup
                {Handle(Append(h.name, a), process.objects + 1, "DemoCollection")}
        /\ UNCHANGED <<backend, config, registry, reported, storeVars, appVars>>

\* "supabase" if USE_SUPABASE else "mongodb"
ReportedDatabase == IF process.USE_SUPABASE THEN "supabase" ELSE "mongodb"

\* GET /api/ : "mode"
root ==
    /\ process.pc = "running"
    /\ reported' = [endpoint |-> "root", database |-> ReportedDatabase]
    /\ UNCHANGED <<backend, config, process, registry, obtained, storeVars, appVars>>

\* GET /api/health : "database"
health_check ==
    /\ process.pc = "running"
    /\ reported' = [endpoint |-> "health", database |-> ReportedDatabase]
    /\ UNCHANGED <<backend, config, process, registry, obtained, storeVars, appVars>>

NextProcess ==
    \/ InitSupabaseClient
    \/ BindMongoDb
    \/ BindSupabaseDb
    \/ handle_for
    \/ sub_collection
    \/ root
    \/ health_check

SpecProcess == InitProcess /\ [][NextProcess]_vars

----------------------------------------------------------------------------
(* The request handlers.  A handler is a coroutine; it is written here as   *)
(* one step because the awaits of DemoCollection's and SupabaseCollection's *)
(* methods never suspend it (their bodies hold no await; the Supabase       *)
(* client is called synchronously), so no other handler runs in between.    *)

\* the documents the collection coaches / staff_users holds at most
MaxCoaches == 2
MaxStaff == 2

CoachEmails == {"coach@university.edu", "new@school.edu"}
StaffEmails == {"admin@hoopwithher.com", "staff@hoopwithher.com"}
Passwords == {"CoachPass123!", "Other123!"}
Roles == {"admin", "editor", "viewer", "coach"}

\* the environment of the handlers; DEMO_MODE is set whenever the in-memory
\* backend is bound, and it is not set when the Motor database is
AppConfigurations == [DEMO_MODE : BOOLEAN, REQUIRE_COACH_VERIFICATION : BOOLEAN]

\* pwd_context.hash / verify_password: a hash verifies the password it was
\* made of and no other
hash_password(password) == <<"bcrypt", password>>
verify_password(plain_password, hashed_password) ==
    hashed_password = hash_password(plain_password)

\* create_access_token / decode_token: the claims of the token
Token(sub, email, role) == [sub |-> sub, email |-> email, role |-> role]

\* the coach document of coach_register and of _seed_demo_data.  A uuid4()
\* value that ends in no document is not counted, and a document is created
\* at the instant that has the number of its id.
CoachDocument(id, email, password, verified) ==
    [id |-> id, email |-> email, password_hash |-> hash_password(password),
     is_active |-> TRUE, is_verified |-> verified, saved_players |-> <<>>,
     created_at |-> IsoInstant(id)]

\* admin_user of setup_admin and of _seed_demo_data
AdminUser(id) ==
    [id |-> id, email |-> "admin@hoopwithher.com",
     password_hash |-> hash_password("AdminPass123!"), role |-> "admin",
     is_active |-> TRUE, is_verified |-> TRUE, created_at |-> IsoInstant(id)]

\* user of register
StaffUser(id, email, role) ==
    [id |-> id, email |-> email, password_hash |-> hash_password("AdminPass123!"),
     role |-> role, is_active |-> TRUE, created_at |-> IsoInstant(id)]

\* the calls of a handler on mongo_db.<name>, on the backend that is bound
StoreFindOne(name, items, query, unavailable) ==
    CASE backend = "demo" -> DemoFindOne(items, query)
      [] backend = "supabase" -> SupabaseFindOne(items, query, unavailable)
      [] OTHER -> MongoFindOne(items, query, unavailable)

StoreCountDocuments(name, items, query, unavailable) ==
    CASE backend = "demo" -> DemoCountDocuments(items, query)
      [] backend = "supabase" -> SupabaseCountDocuments(items, query, unavailable)
      [] OTHER -> MongoCountDocuments(items, query, unavailable)

StoreInsertOne(name, items, document, unavailable) ==
    CASE backend = "demo" -> DemoInsertOne(items, document)
      [] backend = "supabase" ->
            SupabaseInsertOne(items, document, unavailable, TableUnique(name))
      [] OTHER -> MongoInsertOne(items, document, IndexUnique(name), unavailable)

StoreUpdateOne(name, items, query, update, unavailable) ==
    CASE backend = "demo" -> DemoUpdateOne(items, query, update)
      [] backend = "supabase" ->
            SupabaseUpdateOne(items, query, update, unavailable, TableUnique(name))
      [] OTHER -> MongoUpdateOne(items, query, update, IndexUnique(name), unavailable)

\* find(query, projection).sort("created_at", -1).skip(skip).limit(n).to_list(n):
\* DemoCollection.find and SupabaseCollection.find take no projection
\* (TypeError) and return a coroutine, which has no sort
StoreFindSorted(name, items, query, skip, n, unavailable) ==
    IF backend \in {"demo", "supabase"} THEN Failure(items, Raised)
    ELSE LET out == MongoFind(items, query, unavailable) IN
         IF out.failed THEN out
         ELSE Outcome(items, DocumentList(SkipLimit(SortNewestFirst(out.result.v), skip, n)))

\* what a handler answers: the status and the body, with the request it
\* answers and the collections as they were before (history)
\*   failed: a call on the store was not served
Respond(handler, request, status, body, failed) ==
    response' = [handler |-> handler, request |-> request, status |-> status,
                 body |-> body, failed |-> failed, before |-> db, now |-> clock]

\* an unhandled exception, or HTTPException(500)
InternalError == [t |-> "error", v |-> <<>>]
Detail(text) == [t |-> "detail", v |-> text]

\* the process after the import of server.py, in an environment of
\* `configurations`: one of the backends is bound and every collection is
\* empty
Started(configurations) ==
    /\ backend \in {"demo", "supabase", "mongodb"}
    /\ config \in {c \in configurations :
                      /\ backend = "demo" => c.DEMO_MODE
                      /\ backend = "mongodb" => ~c.DEMO_MODE}
    /\ db = [coaches |-> <<>>, staff_users |-> <<>>, players |-> <<>>,
             messages |-> <<>>]
    /\ response = <<>>
    /\ uuid = 0
    /\ clock = 0
    /\ process = <<>>
    /\ registry = <<>>
    /\ obtained = {}
    /\ reported = <<>>
    /\ demo_storage = <<>>
    /\ table = <<>>
    /\ pre = <<>>
    /\ last = Call("startup", EmptyQuery, NoDoc, NoUpdate, FALSE, None)
    /\ tasks = <<>>
    /\ initial = <<>>

InitApp == Started(AppConfigurations)

\* what no handler changes
Fixed == <<backend, config, process, registry, obtained, reported, storeVars, clock>>

\* _seed_demo_data: the admin user and the test coach, unless a document
\* with their email is found; any exception ends the seeding
SeedDemoData(u) ==
    LET admin == StoreFindOne("staff_users", db.staff_users,
                              ByEmail("admin@hoopwithher.com"), u[1])
        staff == IF admin.result.t = "None"
                 THEN StoreInsertOne("staff_users", db.staff_users, AdminUser(1), u[2])
                 ELSE admin
        coach == StoreFindOne("coaches", db.coaches,
                              ByEmail("coach@university.edu"), u[3])
        coaches == IF coach.result.t = "None"
                   THEN StoreInsertOne("coaches", db.coaches,
                            CoachDocument(2, "coach@university.edu", "CoachPass123!", TRUE),
                            u[4])
                   ELSE coach
    IN  IF admin.result.t = "raise" \/ staff.result.t = "raise"
        THEN db
        ELSE IF coach.result.t = "raise" \/ coaches.result.t = "raise"
        THEN [db EXCEPT !.staff_users = staff.storage]
        ELSE [db EXCEPT !.staff_users = staff.storage, !.coaches = coaches.storage]

\* startup(): the indexes (IndexUnique on the document database; no-ops
\* elsewhere), then the seeding in demo mode
startup ==
    \E u \in [1..4 -> Reachability] :
        /\ response = <<>>
        /\ db' = IF config.DEMO_MODE THEN SeedDemoData(u) ELSE db
        /\ uuid' = IF config.DEMO_MODE THEN 2 ELSE 0
        /\ Respond("startup", <<>>, 200, Detail("started"), \E i \in 1..4 : u[i])
        /\ UNCHANGED Fixed

\* POST /api/coach/register
coach_register ==
    \E email \in CoachEmails, password \in {"CoachPass123!"}, u \in [1..2 -> Reachability] :
        LET request == [email |-> email, password |-> password]
            existing == StoreFindOne("coaches", db.coaches, ByEmail(email), u[1])
            coach == CoachDocument(uuid + 1, email, password, FALSE)
            inserted == StoreInsertOne("coaches", db.coaches, coach, u[2])
        IN  /\ response # <<>>
            /\ existing.result.t = "None" => Len(db.coaches) < MaxCoaches
            /\ CASE existing.result.t = "raise" ->
                        /\ Respond("coach_register", request, 500, InternalError, TRUE)
                        /\ UNCHANGED <<db, uuid>>
                 [] existing.result.t = "document" ->
                        /\ Respond("coach_register", request, 400,
                                   Detail("Email already registered"), FALSE)
                        /\ UNCHANGED <<db, uuid>>
                 [] OTHER ->
                        /\ uuid' = IF inserted.result.t = "raise" THEN uuid ELSE uuid + 1
                        /\ db' = [db EXCEPT !.coaches = inserted.storage]
                        /\ IF inserted.result.t = "raise"
                           THEN Respond("coach_register", request, 500, InternalError, TRUE)
                           ELSE Respond("coach_register", request, 200,
                                        [t |-> "registered", v |-> coach.id],
                                        existing.failed)
            /\ UNCHANGED Fixed

\* what coach_login answers when find_one gave `coach`
LoginAnswer_Unchecked(coach, password) ==
    IF coach.t # "document" \/ ~verify_password(password, coach.v.password_hash)
    THEN [status |-> 401, body |-> Detail("Invalid email or password")]
    ELSE IF ~coach.v.is_active
    THEN [status |-> 401, body |-> Detail("Account is disabled")]
    ELSE [status |-> 200,
          body |-> [t |-> "token", v |-> Token(coach.v.id, coach.v.email, "coach")]]

LoginAnswer(coach, password) ==
    IF coach.t # "document" \/ ~verify_password(password, coach.v.password_hash)
    THEN [status |-> 401, body |-> Detail("Invalid email or password")]
    ELSE IF ~coach.v.is_active
    THEN [status |-> 401, body |-> Detail("Account is disabled")]
    ELSE IF config.REQUIRE_COACH_VERIFICATION /\ ~coach.v.is_verified
    THEN [status |-> 403, body |-> Detail("Account pending verification")]
    ELSE [status |-> 200,
          body |-> [t |-> "token", v |-> Token(coach.v.id, coach.v.email, "coach")]]

\* POST /api/coach/login
coach_login ==
    \E email \in CoachEmails, password \in Passwords, u \in Reachability :
        LET request == [email |-> email, password |-> password]
            coach == StoreFindOne("coaches", db.coaches, ByEmail(email), u)
            answer == LoginAnswer(coach.result, password)
        IN  /\ response # <<>>
            /\ IF coach.result.t = "raise"
               THEN Respond("coach_login", request, 500, InternalError, TRUE)
               ELSE Respond("coach_login", request, answer.status, answer.body,
                            coach.failed)
            /\ UNCHANGED <<db, uuid>>
            /\ UNCHANGED Fixed

\* PATCH /api/admin/coaches/{coach_id}/verify, behind require_editor
verify_coach ==
    \E coach_id \in 1..uuid, role \in Roles, u \in [1..2 -> Reachability] :
        LET request == [coach_id |-> coach_id, role |-> role]
            coach == StoreFindOne("coaches", db.coaches, ById(coach_id), u[1])
            new_verified == ~coach.result.v.is_verified
            updated == StoreUpdateOne("coaches", db.coaches, ById(coach_id),
                                      SetFields("is_verified" :> new_verified), u[2])
        IN  /\ response # <<>>
            /\ CASE role \notin {"admin", "editor"} ->
                        /\ Respond("verify_coach", request, 403,
                                   Detail("Editor access required"), FALSE)
                        /\ UNCHANGED db
                 [] coach.result.t = "raise" ->
                        /\ Respond("verify_coach", request, 500, InternalError, TRUE)
                        /\ UNCHANGED db
                 [] coach.result.t = "None" ->
                        /\ Respond("verify_coach", request, 404,
                                   Detail("Coach not found"), coach.failed)
                        /\ UNCHANGED db
                 [] OTHER ->
                        /\ db' = [db EXCEPT !.coaches = updated.storage]
                        /\ IF updated.result.t = "raise"
                           THEN Respond("verify_coach", request, 500, InternalError, TRUE)
                           ELSE Respond("verify_coach", request, 200,
                                        [t |-> "is_verified", v |-> new_verified],
                                        updated.failed)
            /\ UNCHANGED uuid
            /\ UNCHANGED Fixed

\* page: int = 1, page_size: int = 20
Page == 1
PageSize == 20

\* the projection {"_id": 0, "password_hash": 0}
WithoutPasswordHash(list) ==
    [i \in 1..Len(list) |->
        [k \in DOMAIN list[i] \ {"password_hash"} |-> list[i][k]]]

\* GET /api/admin/coaches, behind get_current_user
list_coaches ==
    \E role \in Roles, verified \in {"", "true"}, u \in [1..2 -> Reachability] :
        LET request == [role |-> role, verified |-> verified]
            query == IF verified # "" THEN ByVerified(verified = "true") ELSE EmptyQuery
            total == StoreCountDocuments("coaches", db.coaches, query, u[1])
            coaches == StoreFindSorted("coaches", db.coaches, query,
                                       (Page - 1) * PageSize, PageSize, u[2])
        IN  /\ response # <<>>
            /\ IF total.result.t = "raise" \/ coaches.result.t = "raise"
               THEN Respond("list_coaches", request, 500, InternalError,
                            total.failed \/ (backend = "mongodb" /\ coaches.failed))
               ELSE Respond("list_coaches", request, 200,
                            [t |-> "coaches",
                             v |-> [coaches |-> WithoutPasswordHash(coaches.result.v),
                                    total |-> total.result.v]],
                            total.failed)
            /\ UNCHANGED <<db, uuid>>
            /\ UNCHANGED Fixed

\* POST /api/auth/setup
setup_admin ==
    \E u \in [1..2 -> Reachability] :
        LET staff_count == StoreCountDocuments("staff_users", db.staff_users,
                                               EmptyQuery, u[1])
            inserted == StoreInsertOne("staff_users", db.staff_users,
                                       AdminUser(uuid + 1), u[2])
        IN  /\ response # <<>>
            /\ (staff_count.result.t = "int" /\ staff_count.result.v = 0)
                    => Len(db.staff_users) < MaxStaff
            /\ CASE staff_count.result.t = "raise" ->
                        /\ Respond("setup_admin", <<>>, 500, InternalError, TRUE)
                        /\ UNCHANGED <<db, uuid>>
                 [] staff_count.result.v > 0 ->
                        /\ Respond("setup_admin", <<>>, 200,
                                   Detail("Setup already complete"), FALSE)
                        /\ UNCHANGED <<db, uuid>>
                 [] OTHER ->
                        /\ uuid' = IF inserted.result.t = "raise" THEN uuid ELSE uuid + 1
                        /\ db' = [db EXCEPT !.staff_users = inserted.storage]
                        /\ IF inserted.result.t = "raise"
                           THEN Respond("setup_admin", <<>>, 500, InternalError, TRUE)
                           ELSE Respond("setup_admin", <<>>, 200,
                                        Detail("Initial admin user created successfully"),
                                        staff_count.failed)
            /\ UNCHANGED Fixed

\* POST /api/auth/register
register ==
    \E email \in StaffEmails, role \in {"admin", "viewer"}, u \in [1..2 -> Reachability] :
        LET request == [email |-> email, role |-> role]
            existing == StoreFindOne("staff_users", db.staff_users, ByEmail(email), u[1])
            user == StaffUser(uuid + 1, email, role)
            inserted == StoreInsertOne("staff_users", db.staff_users, user, u[2])
        IN  /\ response # <<>>
            /\ existing.result.t = "None" => Len(db.staff_users) < MaxStaff
            /\ CASE existing.result.t = "raise" ->
                        /\ Respond("register", request, 500, InternalError, TRUE)
                        /\ UNCHANGED <<db, uuid>>
                 [] existing.result.t = "document" ->
                        /\ Respond("register", request, 400,
                                   Detail("Email already registered"), FALSE)
                        /\ UNCHANGED <<db, uuid>>
                 [] OTHER ->
                        /\ uuid' = IF inserted.result.t = "raise" THEN uuid ELSE uuid + 1
                        /\ db' = [db EXCEPT !.staff_users = inserted.storage]
                        /\ IF inserted.result.t = "raise"
                           THEN Respond("register", request, 500, InternalError, TRUE)
                           ELSE Respond("register", request, 200,
                                        [t |-> "registered", v |-> user.id],
                                        existing.failed)
            /\ UNCHANGED Fixed

NextCoaches ==
    \/ startup
    \/ coach_register
    \/ coach_login
    \/ verify_coach
    \/ list_coaches

\* the coach accounts: registration, verification, login, listing
SpecCoaches == InitApp /\ [][NextCoaches]_vars

NextStaff ==
    \/ startup
    \/ register
    \/ setup_admin

\* the staff accounts: registration and the initial admin
SpecStaff == InitApp /\ [][NextStaff]_vars

----------------------------------------------------------------------------
(* Subscriptions and messaging.  clock counts days.                         *)

\* timedelta(days=30) of activate_subscription
SubscriptionDays == 30

\* the last day of the model
MaxClock == 31

\* the documents the collection messages holds at most
MaxMessages == 1

\* the coaches that exist where subscriptions are followed
MaxSubscribers == 1

\* to_list(100) of get_messages
MessagesLimit == 100

\* the environment of the subscription routes: the payment system is
\* configured, and with no verification required every registered coach
\* obtains a token from coach_login
SubscriptionConfigurations ==
    [DEMO_MODE : BOOLEAN, REQUIRE_COACH_VERIFICATION : {FALSE},
     STRIPE_API_KEY : {TRUE}]

InitSubscription == Started(SubscriptionConfigurations)

\* the tokens coach_login and login issue for the stored accounts
CoachTokens == {Token(c.id, c.email, "coach") : c \in {db.coaches[i] : i \in 1..Len(db.coaches)}}
StaffTokens ==
    {Token(s.id, s.email, s.role) : s \in {db.staff_users[i] : i \in 1..Len(db.staff_users)}}
Tokens == CoachTokens \cup StaffTokens

\* what get_checkout_status answers for a session: the payment status and
\* the metadata of the checkout (the tier that was bought, if it names one)
CheckoutSessions ==
    {[id |-> "cs_elite", payment_status |-> "paid", metadata |-> [tier |-> "elite"]],
     [id |-> "cs_plain", payment_status |-> "paid", metadata |-> [mode |-> "payment"]],
     [id |-> "cs_open", payment_status |-> "unpaid", metadata |-> [tier |-> "elite"]]}

\* the days pass: a subscription period and a day
TimePasses ==
    /\ response # <<>>
    /\ clock + SubscriptionDays + 1 <= MaxClock
    /\ clock' = clock + SubscriptionDays + 1
    /\ UNCHANGED <<backend, storeVars, processVars, db, response, uuid>>

\* POST /api/coach/subscription/activate, when get_checkout_status answers
\* `session` for the session id.  HTTPException(400) for an unpaid session is
\* raised inside the try block and leaves it as a 500.
Activate(token, session, u) ==
        LET request == [token |-> token, session_id |-> session.id]
            tier == IF "tier" \in DOMAIN session.metadata
                    THEN session.metadata.tier ELSE "basic"
            updated ==
                StoreUpdateOne("coaches", db.coaches, ById(token.sub),
                    SetFields([subscription_tier |-> tier,
                               subscription_status |-> "active",
                               subscription_started |-> IsoInstant(clock),
                               subscription_expires |-> IsoInstant(clock + SubscriptionDays),
                               subscription_session_id |-> session.id]),
                    u)
        IN  /\ CASE token.role # "coach" ->
                        /\ Respond("activate_subscription", request, 403,
                                   Detail("Coach access required"), FALSE)
                        /\ UNCHANGED db
                 [] ~config.STRIPE_API_KEY ->
                        /\ Respond("activate_subscription", request, 500,
                                   Detail("Payment system not configured"), FALSE)
                        /\ UNCHANGED db
                 [] session.payment_status # "paid" ->
                        /\ Respond("activate_subscription", request, 500,
                                   Detail("Payment not completed"), FALSE)
                        /\ UNCHANGED db
                 [] updated.result.t = "raise" ->
                        /\ Respond("activate_subscription", request, 500,
                                   InternalError, TRUE)
                        /\ UNCHANGED db
                 [] OTHER ->
                        /\ db' = [db EXCEPT !.coaches = updated.storage]
                        /\ Respond("activate_subscription", request, 200,
                                   [t |-> "activated", v |-> tier], updated.failed)
            /\ UNCHANGED <<Fixed, uuid>>

\* ... for a session of which get_checkout_status answers what
\* CheckoutSessions holds
activate_subscription ==
    \E token \in Tokens, session \in CheckoutSessions, u \in Reachability :
        /\ response # <<>>
        /\ Activate(token, session, u)

\* datetime.fromisoformat(expires.replace('Z', '+00:00')): the instant an
\* isoformat string names; ValueError / AttributeError for another value
fromisoformat(v) ==
    IF v.type = "str" THEN [t |-> "datetime", v |-> v.instant] ELSE Raised

\* get_coach_tier that does not look at subscription_expires
get_coach_tier_NeverExpires(coach) ==
    IF "subscription_tier" \in DOMAIN coach THEN coach.subscription_tier ELSE "free"

\* get_coach_tier(coach) at the instant clock; what the parsing of expires
\* raises is passed over (except: pass)
get_coach_tier(coach) ==
    LET tier == IF "subscription_tier" \in DOMAIN coach
                THEN coach.subscription_tier ELSE "free"
        exp_date == IF "subscription_expires" \in DOMAIN coach
                    THEN fromisoformat(coach.subscription_expires) ELSE None
    IN  IF exp_date.t = "datetime" /\ clock > exp_date.v THEN "free" ELSE tier

feature_tiers ==
    [contact_info |-> {"premium", "elite"}, film_links |-> {"premium", "elite"},
     messaging |-> {"elite"}, comparison |-> {"elite"},
     export |-> {"premium", "elite"}, unlimited_saves |-> {"premium", "elite"}]

can_access_feature(tier, feature) ==
    IF feature \in DOMAIN feature_tiers
    THEN tier \in feature_tiers[feature]
    ELSE tier \in {"basic", "premium", "elite"}

\* the recipients of a message: the staff ("hwh"), or a coach by id
Recipients ==
    {[type |-> "hwh", id |-> 0]}
    \cup {[type |-> "coach", id |-> db.coaches[i].id] : i \in 1..Len(db.coaches)}

\* msg of send_message (no player is referenced)
Message(id, sender, recipient) ==
    [id |-> id, sender_id |-> sender, recipient_type |-> recipient.type,
     recipient_id |-> recipient.id, created_at |-> IsoInstant(clock)]

\* POST /api/coach/messages.  get_coach_tier(None) raises AttributeError
\* when no coach document was found.
send_message ==
    \E token \in Tokens, recipient \in Recipients, u \in [1..3 -> Reachability] :
        LET request == [token |-> token, recipient |-> recipient]
            coach == StoreFindOne("coaches", db.coaches, ById(token.sub), u[1])
            recipient_coach ==
                StoreFindOne("coaches", db.coaches, ById(recipient.id), u[2])
            inserted == StoreInsertOne("messages", db.messages,
                                       Message(uuid + 1, token.sub, recipient), u[3])
            answer ==
                CASE token.role # "coach" ->
                        [status |-> 403, body |-> Detail("Coach access required"),
                         failed |-> FALSE]
                  [] coach.result.t # "document" ->
                        [status |-> 500, body |-> InternalError, failed |-> coach.failed]
                  [] ~can_access_feature(get_coach_tier(coach.result.v), "messaging") ->
                        [status |-> 403,
                         body |-> Detail("Elite subscription required for messaging"),
                         failed |-> FALSE]
                  [] recipient.type = "coach" /\ recipient_coach.result.t = "raise" ->
                        [status |-> 500, body |-> InternalError, failed |-> TRUE]
                  [] recipient.type = "coach" /\ recipient_coach.result.t = "None" ->
                        [status |-> 404, body |-> Detail("Recipient coach not found"),
                         failed |-> recipient_coach.failed]
                  [] /\ recipient.type = "coach"
                     /\ ~can_access_feature(get_coach_tier(recipient_coach.result.v),
                                            "messaging") ->
                        [status |-> 400,
                         body |-> Detail("Recipient coach must have Elite subscription to receive messages"),
                         failed |-> FALSE]
                  [] inserted.result.t = "raise" ->
                        [status |-> 500, body |-> InternalError, failed |-> TRUE]
                  [] OTHER ->
                        [status |-> 200, body |-> [t |-> "sent", v |-> uuid + 1],
                         failed |-> FALSE]
        IN  /\ response # <<>>
            /\ answer.status = 200 => Len(db.messages) < MaxMessages
            /\ Respond("send_message", request, answer.status, answer.body, answer.failed)
            /\ db' = IF answer.status = 200
                     THEN [db EXCEPT !.messages = inserted.storage] ELSE db
            /\ uuid' = IF answer.status = 200 THEN uuid + 1 ELSE uuid
            /\ UNCHANGED Fixed

\* GET /api/coach/messages
get_messages ==
    \E token \in Tokens, type \in {"inbox", "sent"}, u \in [1..2 -> Reachability] :
        LET request == [token |-> token, type |-> type]
            coach == StoreFindOne("coaches", db.coaches, ById(token.sub), u[1])
            query == IF type = "inbox"
                     THEN ("recipient_id" :> Val(token.sub))
                            @@ ("recipient_type" :> Val("coach"))
                     ELSE ("sender_id" :> Val(token.sub))
            messages == StoreFindSorted("messages", db.messages, query, 0,
                                        MessagesLimit, u[2])
        IN  /\ response # <<>>
            /\ CASE token.role # "coach" ->
                        Respond("get_messages", request, 403,
                                Detail("Coach access required"), FALSE)
                 [] coach.result.t # "document" ->
                        Respond("get_messages", request, 500, InternalError, coach.failed)
                 [] ~can_access_feature(get_coach_tier(coach.result.v), "messaging") ->
                        Respond("get_messages", request, 403,
                                Detail("Elite subscription required for messaging"), FALSE)
                 [] messages.result.t = "raise" ->
                        Respond("get_messages", request, 500, InternalError, TRUE)
                 [] OTHER ->
                        Respond("get_messages", request, 200,
                                [t |-> "messages", v |-> messages.result.v], FALSE)
            /\ UNCHANGED <<Fixed, db, uuid>>

NextMessaging ==
    \/ startup
    \/ (Len(db.coaches) < MaxSubscribers /\ coach_register)
    \/ activate_subscription
    \/ TimePasses
    \/ send_message
    \/ get_messages

\* the subscription of a coach and the messaging it opens
SpecMessaging == InitSubscription /\ [][NextMessaging]_vars

----------------------------------------------------------------------------
(* Players and the saved players of a coach *)

\* the players whose intake form is submitted
MaxPlayers == 6

\* "Save up to 5 players" of the free tier, "Save up to 25 players" of basic
FreeSaveLimit == 5
BasicSaveLimit == 25

\* generate_player_key: one key per player of the model
PlayerKeys == 1..MaxPlayers

\* the form of the player with a key: name and position
Ann == <<"A", "n", "n">>
Bea == <<"B", "e", "a">>
IntakeForm(player_key) ==
    [player_name |-> IF player_key % 2 = 1 THEN Ann ELSE Bea,
     primary_position |-> IF player_key % 2 = 1 THEN "PG" ELSE "SG"]

\* player of submit_intake
Player(id, player_key) ==
    [id |-> id, player_key |-> player_key,
     player_name |-> IntakeForm(player_key).player_name,
     primary_position |-> IntakeForm(player_key).primary_position,
     verified |-> FALSE, created_at |-> IsoInstant(clock)]

\* POST /api/intake, as far as the collection players goes: the player is
\* looked up by its key and inserted if there is none; the submission, the
\* project, the deliverables and the reminders are inserted into collections
\* that are not followed here, and a call that raises ends the request.
\* The forms come in the order of the keys.
submit_intake ==
    \E player_key \in PlayerKeys :
      /\ response # <<>>
      /\ player_key <= Len(db.players) + 1
      /\ \E u \in [1..3 -> Reachability] :
        LET request == [player_key |-> player_key]
            player == StoreFindOne("players", db.players,
                                   ("player_key" :> Val(player_key)), u[1])
            inserted == StoreInsertOne("players", db.players,
                                       Player(uuid + 1, player_key), u[2])
            created == player.result.t = "None" /\ inserted.result.t # "raise"
        IN  /\ db' = IF created THEN [db EXCEPT !.players = inserted.storage] ELSE db
            /\ uuid' = IF created THEN uuid + 1 ELSE uuid
            /\ IF \/ player.result.t = "raise"
                  \/ player.result.t = "None" /\ inserted.result.t = "raise"
                  \/ u[3]
               THEN Respond("submit_intake", request, 500, InternalError, TRUE)
               ELSE Respond("submit_intake", request, 200,
                            [t |-> "submitted", v |-> IF created THEN uuid + 1
                                                      ELSE player.result.v.id],
                            player.failed)
            /\ UNCHANGED Fixed

\* PATCH /api/admin/players/{player_id}/verify (require_editor).  The
\* requests name the newest player, or no player (0).
verify_player ==
    \E token \in Tokens, player_id \in 0..uuid :
      /\ response # <<>>
      /\ player_id # 0 => /\ db.players # <<>>
                          /\ player_id = db.players[Len(db.players)].id
      /\ \E u \in [1..2 -> Reachability] :
        LET request == [token |-> token, player_id |-> player_id]
            player == StoreFindOne("players", db.players, ById(player_id), u[1])
            new_verified == ~player.result.v.verified
            updated == StoreUpdateOne("players", db.players, ById(player_id),
                                      SetFields(("verified" :> new_verified)), u[2])
        IN  /\ CASE token.role \notin {"admin", "editor"} ->
                        /\ Respond("verify_player", request, 403,
                                   Detail("Editor access required"), FALSE)
                        /\ UNCHANGED db
                 [] player.result.t = "raise" ->
                        /\ Respond("verify_player", request, 500, InternalError, TRUE)
                        /\ UNCHANGED db
                 [] player.result.t = "None" ->
                        /\ Respond("verify_player", request, 404,
                                   Detail("Player not found"), player.failed)
                        /\ UNCHANGED db
                 [] updated.result.t = "raise" ->
                        /\ Respond("verify_player", request, 500, InternalError, TRUE)
                        /\ UNCHANGED db
                 [] OTHER ->
                        /\ db' = [db EXCEPT !.players = updated.storage]
                        /\ Respond("verify_player", request, 200,
                                   [t |-> "verified", v |-> new_verified], updated.failed)
            /\ UNCHANGED <<Fixed, uuid>>

\* the saved_players array of the coach a token names (empty for anyone else)
SavedBy(token) ==
    LET i == MongoFirstMatch(db.coaches, ById(token.sub)) IN
    IF token.role = "coach" /\ i # 0 THEN db.coaches[i].saved_players ELSE <<>>

\* POST /api/coach/saved-players.  The requests name a player that is saved
\* already, the player after them in the collection, or no player (0).
save_player ==
    \E token \in Tokens, player_id \in 0..uuid :
      /\ response # <<>>
      /\ player_id # 0 =>
            \E i \in 1..Len(db.players) :
                /\ db.players[i].id = player_id
                /\ i <= Len(SavedBy(token)) + 1
      /\ \E u \in [1..3 -> Reachability] :
        LET request == [token |-> token, player_id |-> player_id]
            player == StoreFindOne("players", db.players,
                                   ById(player_id) @@ ("verified" :> Val(TRUE)), u[1])
            saved_entry == SavedEntry(player_id, 1)
            result == StoreUpdateOne("coaches", db.coaches,
                          ById(token.sub)
                              @@ ("saved_players.player_id" :> Ne(player_id)),
                          AppendToArray("saved_players", saved_entry), u[2])
            noted == StoreUpdateOne("coaches", result.storage,
                          ById(token.sub)
                              @@ ("saved_players.player_id" :> Val(player_id)),
                          SetFields(("saved_players.$.notes" :> saved_entry.notes)),
                          u[3])
        IN  /\ CASE token.role # "coach" ->
                        /\ Respond("save_player", request, 403,
                                   Detail("Coach access required"), FALSE)
                        /\ UNCHANGED db
                 [] player.result.t = "raise" ->
                        /\ Respond("save_player", request, 500, InternalError, TRUE)
                        /\ UNCHANGED db
                 [] player.result.t = "None" ->
                        /\ Respond("save_player", request, 404,
                                   Detail("Prospect not found or not verified"),
                                   player.failed)
                        /\ UNCHANGED db
                 [] result.result.t = "raise" ->
                        /\ Respond("save_player", request, 500, InternalError, TRUE)
                        /\ UNCHANGED db
                 [] result.result.v = 0 /\ noted.result.t = "raise" ->
                        /\ Respond("save_player", request, 500, InternalError, TRUE)
                        /\ UNCHANGED db
                 [] result.result.v = 0 ->
                        /\ db' = [db EXCEPT !.coaches = noted.storage]
                        /\ Respond("save_player", request, 200,
                                   [t |-> "saved", v |-> player_id],
                                   result.failed \/ noted.failed)
                 [] OTHER ->
                        /\ db' = [db EXCEPT !.coaches = result.storage]
                        /\ Respond("save_player", request, 200,
                                   [t |-> "saved", v |-> player_id], FALSE)
            /\ UNCHANGED <<Fixed, uuid>>

\* DELETE /api/coach/saved-players/{player_id}.  The requests name the
\* player that was saved last, or no player (0).
unsave_player ==
    \E token \in Tokens, player_id \in 0..uuid :
      /\ response # <<>>
      /\ player_id # 0 =>
            /\ SavedBy(token) # <<>>
            /\ SavedBy(token)[Len(SavedBy(token))].player_id = player_id
      /\ \E u \in Reachability :
        LET request == [token |-> token, player_id |-> player_id]
            updated == StoreUpdateOne("coaches", db.coaches, ById(token.sub),
                                      RemoveFromArray("saved_players", player_id), u)
        IN  /\ CASE token.role # "coach" ->
                        /\ Respond("unsave_player", request, 403,
                                   Detail("Coach access required"), FALSE)
                        /\ UNCHANGED db
                 [] updated.result.t = "raise" ->
                        /\ Respond("unsave_player", request, 500, InternalError, TRUE)
                        /\ UNCHANGED db
                 [] OTHER ->
                        /\ db' = [db EXCEPT !.coaches = updated.storage]
                        /\ Respond("unsave_player", request, 200,
                                   [t |-> "removed", v |-> player_id], updated.failed)
            /\ UNCHANGED <<Fixed, uuid>>

NextSaved ==
    \/ startup
    \/ (Len(db.coaches) < MaxSubscribers /\ coach_register)
    \/ setup_admin
    \/ (/\ db.coaches # <<>>
        /\ db.staff_users # <<>>
        /\ \A i \in 1..Len(db.players) : db.players[i].verified
        /\ submit_intake)
    \/ verify_player
    \/ save_player
    \/ unsave_player

\* the players and the lists of saved players; the forms of the players
\* come in once a coach and a staff user exist, each after the players
\* before it were verified
SpecSaved == InitSubscription /\ [][NextSaved]_vars

----------------------------------------------------------------------------
(* The listing of the players *)

\* the players that exist where the listing is followed
MaxListed == 3

\* d[k] = v
SetItem(d, k, v) == [x \in DOMAIN d \cup {k} |-> IF x = k THEN v ELSE d[x]]

\* the query list_players builds from its parameters, statement by statement
\* (no grad_class, school or gender is asked for)
ListPlayersQuery(position, verified, search) ==
    LET by_position ==
            IF position # ""
            THEN SetItem(EmptyQuery, "$or",
                         OrList(("primary_position" :> Val(position)),
                                ("secondary_position" :> Val(position))))
            ELSE EmptyQuery
        by_verified ==
            IF verified # ""
            THEN SetItem(by_position, "verified", Val(verified = "true"))
            ELSE by_position
    IN  IF search # <<>>
        THEN SetItem(by_verified, "$or",
                     [t |-> "list",
                      v |-> <<("player_name" :> Regex(search)),
                              ("school" :> Regex(search)),
                              ("city" :> Regex(search))>>])
        ELSE by_verified

\* GET /api/admin/players.  On the in-memory backend and on the adapter
\* find(query, projection) raises TypeError: find takes the query only.
list_players ==
    \E token \in Tokens, page \in {1, 2}, page_size \in {1, PageSize},
       position \in {"", "PG"}, search \in {<<>>, <<"b", "e">>},
       u \in [1..2 -> Reachability] :
        LET request == [token |-> token, page |-> page, page_size |-> page_size,
                        position |-> position, search |-> search]
            query == ListPlayersQuery(position, "", search)
            total == StoreCountDocuments("players", db.players, query, u[1])
            skip == (page - 1) * page_size
            players == StoreFindSorted("players", db.players, query, skip, page_size, u[2])
        IN  /\ response # <<>>
            /\ CASE total.result.t = "raise" ->
                        Respond("list_players", request, 500, InternalError, TRUE)
                 [] players.result.t = "raise" ->
                        Respond("list_players", request, 500, InternalError,
                                total.failed \/ backend = "mongodb")
                 [] OTHER ->
                        Respond("list_players", request, 200,
                                [t |-> "players",
                                 v |-> [players |-> players.result.v,
                                        total |-> total.result.v]],
                                total.failed)
            /\ UNCHANGED <<Fixed, db, uuid>>

NextPlayers ==
    \/ startup
    \/ (Len(db.coaches) < MaxSubscribers /\ coach_register)
    \/ (Len(db.players) < MaxListed /\ submit_intake)
    \/ list_players

\* the intake of players and their listing
SpecPlayers == InitSubscription /\ [][NextPlayers]_vars

----------------------------------------------------------------------------
(* The in-memory stores: mongo_db = DemoDB() and the DemoDB() of            *)
(* MockMongoClient.  A DemoDB keeps the handles it made (_collections,      *)
(* here registry); every DemoCollection reads and writes the module-level   *)
(* dict _demo_storage (here db) under its name.                             *)

Stores == {"mongo_db", "mongo_client.demo_db"}
StoreNames == {"coaches", "players"}

\* the documents that are written through the stores
StoreDocs == {d \in ScalarDocs : d.email = d.id /\ ~d.is_verified}

InitStores ==
    /\ backend = "demo"
    /\ db = [n \in StoreNames |-> <<>>]
    /\ registry = [s \in Stores |-> {}]
    /\ pre = db
    /\ last = [op |-> "startup", store |-> "", name |-> ""]
    /\ config = <<>>
    /\ process = <<>>
    /\ obtained = {}
    /\ reported = <<>>
    /\ response = <<>>
    /\ uuid = 0
    /\ clock = 0
    /\ demo_storage = <<>>
    /\ table = <<>>
    /\ tasks = <<>>
    /\ initial = <<>>

\* store.<name>.<op>(...): DemoDB.__getitem__ makes the handle of the name if
\* the store has none, and the call of the handle ends with outcome out
ThroughHandle(store, name, op, out) ==
    /\ registry' = [registry EXCEPT ![store] = @ \cup {name}]
    /\ db' = [db EXCEPT ![name] = out.storage]
    /\ pre' = db
    /\ last' = [op |-> op, store |-> store, name |-> name]
    /\ UNCHANGED <<backend, config, process, obtained, reported, response, uuid,
                   clock, demo_storage, table, tasks, initial>>

\* what find({}) returns through a handle of the store, when _demo_storage
\* is `storage`
SeenThrough(store, name, storage) == DemoFind(storage[name], EmptyQuery).result.v

store_insert_one ==
    \E store \in Stores, name \in StoreNames, d \in StoreDocs :
        /\ Len(db[name]) < MaxDocs
        /\ ThroughHandle(store, name, "insert_one", DemoInsertOne(db[name], d))

store_update_one ==
    \E store \in Stores, name \in StoreNames, q \in IdQueries :
        ThroughHandle(store, name, "update_one",
                      DemoUpdateOne(db[name], q, SetFields(("is_verified" :> TRUE))))

store_delete_one ==
    \E store \in Stores, name \in StoreNames, q \in IdQueries :
        ThroughHandle(store, name, "delete_one", DemoDeleteOne(db[name], q))

store_find ==
    \E store \in Stores, name \in StoreNames :
        ThroughHandle(store, name, "find", DemoFind(db[name], EmptyQuery))

NextStores ==
    \/ store_insert_one
    \/ store_update_one
    \/ store_delete_one
    \/ store_find

\* two in-memory stores side by side
SpecStores == InitStores /\ [][NextStores]_vars

----------------------------------------------------------------------------
(* Password reset: forgot_password and reset_password.  Instants are whole  *)
(* hours; isoformat() strings of UTC instants compare as the instants do.   *)
(* Several reset_password requests are in flight at once (tasks): each is a *)
(* coroutine that can be suspended at an await on the document database,    *)
(* while no method of DemoCollection or SupabaseCollection suspends.        *)

\* reset records that are issued, requests that are made, hours that pass
MaxTokens == 1
MaxResets == 2
MaxHours == 2

\* timedelta(hours=1)
TokenHours == 1

Resets == 1..MaxResets

Waiting == [pc |-> "idle", token |-> 0, new_password |-> "", reset_record |-> <<>>,
            status |-> 0]

\* a coach account exists, no token was issued, no request was made
InitReset ==
    /\ backend \in {"demo", "supabase", "mongodb"}
    /\ config = <<>>
    /\ db = [staff_users |-> <<>>,
             coach_users |-> <<>>,
             coaches |-> <<CoachDocument(1, "coach@university.edu", "CoachPass123!", TRUE)>>,
             password_reset_tokens |-> <<>>]
    /\ tasks = [r \in Resets |-> Waiting]
    /\ response = <<>>
    /\ uuid = 1
    /\ clock = 0
    /\ process = <<>>
    /\ registry = <<>>
    /\ obtained = {}
    /\ reported = <<>>
    /\ demo_storage = <<>>
    /\ table = <<>>
    /\ pre = <<>>
    /\ last = Call("startup", EmptyQuery, NoDoc, NoUpdate, FALSE, None)
    /\ initial = <<>>

HourPasses ==
    /\ clock < MaxHours
    /\ clock' = clock + 1
    /\ UNCHANGED <<backend, storeVars, processVars, db, response, uuid>>

\* POST /api/auth/forgot-password
forgot_password ==
    \E email \in CoachEmails, unavailable \in Reachability :
        LET request == [email |-> email]
            staff_user == StoreFindOne("staff_users", db.staff_users, ByEmail(email), unavailable)
            coach_user == StoreFindOne("coach_users", db.coach_users, ByEmail(email), unavailable)
            coach == StoreFindOne("coaches", db.coaches, ByEmail(email), unavailable)
            raised == \E out \in {staff_user, coach_user, coach} : out.result = Raised
            user_collection ==
                CASE staff_user.result.t = "document" -> "staff_users"
                  [] coach_user.result.t = "document" -> "coach_users"
                  [] coach.result.t = "document" -> "coaches"
                  [] OTHER -> ""
            user ==
                CASE user_collection = "staff_users" -> staff_user.result.v
                  [] user_collection = "coach_users" -> coach_user.result.v
                  [] OTHER -> coach.result.v
            reset_record ==
                [id |-> uuid + 2, token |-> uuid + 1, user_id |-> user.id,
                 user_collection |-> user_collection, email |-> email,
                 expires_at |-> clock + TokenHours, used |-> FALSE,
                 created_at |-> IsoInstant(clock)]
            stored == StoreInsertOne("password_reset_tokens", db.password_reset_tokens,
                                     reset_record, unavailable)
        IN  /\ IF raised
               THEN /\ Respond("forgot_password", request, 500, InternalError, TRUE)
                    /\ UNCHANGED <<db, uuid>>
               ELSE IF user_collection = ""
               THEN /\ Respond("forgot_password", request, 200, Detail("sent"), unavailable)
                    /\ UNCHANGED <<db, uuid>>
               ELSE IF stored.failed
               THEN /\ Respond("forgot_password", request, 500, InternalError, TRUE)
                    /\ UNCHANGED <<db, uuid>>
               ELSE /\ db' = [db EXCEPT !.password_reset_tokens = stored.storage]
                    /\ uuid' = uuid + 2
                    /\ Respond("forgot_password", request, 200, Detail("sent"), FALSE)
            /\ UNCHANGED <<Fixed>>

\* the tokens a client presents: the issued ones, and one that was not
PresentedTokens ==
    {db.password_reset_tokens[i].token : i \in 1..Len(db.password_reset_tokens)} \cup {0}

\* whether an await of a store call gives the event loop to another request
Suspends == backend = "mongodb"

\* request r may run: it was not suspended, or nothing else is under way
MayRun(r) ==
    Suspends \/ \A q \in Resets \ {r} : tasks[q].pc \in {"idle", "done"}

Answered(r, status) ==
    tasks' = [tasks EXCEPT ![r].pc = "done", ![r].status = status]

ResetFrame == UNCHANGED <<backend, demo_storage, table, pre, last, initial,
                          processVars, response, uuid, clock>>

\* POST /api/auth/reset-password, up to the answer of
\* password_reset_tokens.find_one
reset_password_find(r) ==
    \E token \in PresentedTokens, new_password \in {"Other123!"},
       unavailable \in Reachability :
        LET out == StoreFindOne("password_reset_tokens", db.password_reset_tokens,
                                [k \in {"token", "used", "expires_at"} |->
                                    CASE k = "token" -> Val(token)
                                      [] k = "used" -> Val(FALSE)
                                      [] OTHER -> Gt(clock)],
                                unavailable)
        IN  /\ tasks[r].pc = "idle"
            /\ MayRun(r)
            /\ tasks' = [tasks EXCEPT ![r] =
                  [pc |-> IF out.result.t = "document" THEN "found" ELSE "done",
                   token |-> token, new_password |-> new_password,
                   reset_record |-> IF out.result.t = "document" THEN out.result.v ELSE <<>>,
                   status |-> CASE out.result.t = "document" -> 0
                                [] out.result = Raised -> 500
                                [] OTHER -> 400]]
            /\ UNCHANGED db
            /\ ResetFrame

\* ... up to the answer of mongo_db[collection_name].update_one
reset_password_update(r) ==
    \E unavailable \in Reachability :
        LET name == tasks[r].reset_record.user_collection
            out == StoreUpdateOne(name, db[name], ById(tasks[r].reset_record.user_id),
                                  SetFields(("password_hash" :>
                                                hash_password(tasks[r].new_password))),
                                  unavailable)
        IN  /\ tasks[r].pc = "found"
            /\ MayRun(r)
            /\ db' = [db EXCEPT ![name] = out.storage]
            /\ IF out.result = Raised THEN Answered(r, 500)
               ELSE tasks' = [tasks EXCEPT ![r].pc = "updated"]
            /\ ResetFrame

\* ... up to the answer
reset_password_mark(r) ==
    \E unavailable \in Reachability :
        LET out == StoreUpdateOne("password_reset_tokens", db.password_reset_tokens,
                                  ById(tasks[r].reset_record.id),
                                  SetFields(("used" :> TRUE)), unavailable)
        IN  /\ tasks[r].pc = "updated"
            /\ MayRun(r)
            /\ db' = [db EXCEPT !.password_reset_tokens = out.storage]
            /\ Answered(r, IF out.result = Raised THEN 500 ELSE 200)
            /\ ResetFrame

NextReset ==
    \/ (Len(db.password_reset_tokens) < MaxTokens /\ forgot_password)
    \/ HourPasses
    \/ \E r \in Resets : reset_password_find(r)
    \/ \E r \in Resets : reset_password_update(r)
    \/ \E r \in Resets : reset_password_mark(r)

SpecReset == InitReset /\ [][NextReset]_vars

----------------------------------------------------------------------------
(* Checkout sessions.  The payment service keeps the sessions (here         *)
(* registry): create_checkout_session makes one, the customer pays it on    *)
(* the page of the service, get_checkout_status reads it.  Amounts in       *)
(* dollars are fractions n/d, the service counts whole cents.               *)

\* sessions that are created
MaxSessions == 2

Dollars(n) == [n |-> n, d |-> 1]
SameAmount(a, b) == a.n * b.d = b.n * a.d

\* the price of COACH_TIERS[tier] and of PACKAGES[package], in dollars
COACH_TIERS == [basic |-> Dollars(99), premium |-> Dollars(299), elite |-> Dollars(499)]
PACKAGES == [starter |-> Dollars(99), development |-> Dollars(199),
             elite_track |-> Dollars(399)]

\* StripeCheckout.create_checkout_session: the session the service makes of
\* the request, with amount_cents = int(request.amount * 100)
create_checkout_session(id, amount, metadata) ==
    [id |-> id, status |-> "open", payment_status |-> "unpaid",
     amount_total |-> (amount.n * 100) \div amount.d, metadata |-> metadata]

\* StripeCheckout.get_checkout_status, with
\* amount_total = (session.amount_total or 0) / 100
get_checkout_status(session) ==
    [id |-> session.id, status |-> session.status,
     payment_status |-> session.payment_status,
     amount_total |-> [n |-> session.amount_total, d |-> 100],
     metadata |-> session.metadata]

\* two coach accounts exist, the service holds no session
InitCheckout ==
    /\ backend \in {"demo", "supabase", "mongodb"}
    /\ config \in {c \in SubscriptionConfigurations :
                      /\ backend = "demo" => c.DEMO_MODE
                      /\ backend = "mongodb" => ~c.DEMO_MODE}
    /\ db = [coaches |-> <<CoachDocument(1, "coach@university.edu", "CoachPass123!", TRUE),
                           CoachDocument(2, "new@school.edu", "CoachPass123!", TRUE)>>,
             staff_users |-> <<>>, players |-> <<>>, messages |-> <<>>]
    /\ registry = {}
    /\ response = <<>>
    /\ uuid = 2
    /\ clock = 0
    /\ process = <<>>
    /\ obtained = {}
    /\ reported = <<>>
    /\ demo_storage = <<>>
    /\ table = <<>>
    /\ pre = <<>>
    /\ last = Call("startup", EmptyQuery, NoDoc, NoUpdate, FALSE, None)
    /\ tasks = <<>>
    /\ initial = <<>>

\* POST /api/coach/subscription/checkout
create_subscription_checkout ==
    \E token \in Tokens, tier \in {"basic", "elite", "gold"} :
        LET request == [token |-> token, tier |-> tier]
            session == create_checkout_session(
                           Cardinality(registry) + 1, COACH_TIERS[tier],
                           [coach_id |-> token.sub, tier |-> tier,
                            type |-> "coach_subscription"])
        IN  /\ CASE token.role # "coach" ->
                        /\ Respond("create_subscription_checkout", request, 403,
                                   Detail("Coach access required"), FALSE)
                        /\ UNCHANGED registry
                 [] tier \notin DOMAIN COACH_TIERS ->
                        /\ Respond("create_subscription_checkout", request, 400,
                                   Detail("Invalid subscription tier"), FALSE)
                        /\ UNCHANGED registry
                 [] ~config.STRIPE_API_KEY ->
                        /\ Respond("create_subscription_checkout", request, 500,
                                   Detail("Payment system not configured"), FALSE)
                        /\ UNCHANGED registry
                 [] OTHER ->
                        /\ registry' = registry \cup {session}
                        /\ Respond("create_subscription_checkout", request, 200,
                                   [t |-> "session_id", v |-> session.id], FALSE)
            /\ UNCHANGED <<backend, config, process, obtained, reported, storeVars,
                           clock, db, uuid>>

\* the customer pays an open session on the page of the payment service
CustomerPays ==
    \E session \in registry :
        /\ session.payment_status = "unpaid"
        /\ registry' = (registry \ {session})
                          \cup {[session EXCEPT !.status = "complete",
                                                !.payment_status = "paid"]}
        /\ UNCHANGED <<backend, config, process, obtained, reported, storeVars,
                       appVars>>

\* POST /api/coach/subscription/activate with the id of a session of the
\* payment service
activate_session ==
    \E token \in Tokens, session \in registry, u \in Reachability :
        Activate(token, get_checkout_status(session), u)

NextCheckout ==
    \/ (Cardinality(registry) < MaxSessions /\ create_subscription_checkout)
    \/ CustomerPays
    \/ activate_session

SpecCheckout == InitCheckout /\ [][NextCheckout]_vars

----------------------------------------------------------------------------
(* Package payments: the checkout session and the payment transaction of an *)
(* intake, and get_payment_status.                                          *)

\* intakes that are submitted
MaxIntakes == 2

BySessionId(id) == ("session_id" :> Val(id))

InitPayments ==
    /\ backend \in {"demo", "supabase", "mongodb"}
    /\ config \in {c \in SubscriptionConfigurations :
                      /\ backend = "demo" => c.DEMO_MODE
                      /\ backend = "mongodb" => ~c.DEMO_MODE}
    /\ db = [projects |-> <<>>, payment_transactions |-> <<>>]
    /\ registry = {}
    /\ response = <<>>
    /\ uuid = 0
    /\ clock = 0
    /\ process = <<>>
    /\ obtained = {}
    /\ reported = <<>>
    /\ demo_storage = <<>>
    /\ table = <<>>
    /\ pre = <<>>
    /\ last = Call("startup", EmptyQuery, NoDoc, NoUpdate, FALSE, None)
    /\ tasks = <<>>
    /\ initial = <<>>

\* POST /api/intake from the project on: the project of the submission, the
\* checkout session of the package and its payment transaction.  An exception
\* of the payment part is logged, the intake is answered all the same.
submit_intake_payment ==
    \E package \in {"starter", "elite_track", "custom"}, u \in Reachability :
        LET request == [package_selected |-> package]
            submission_id == uuid + 1
            project ==
                [id |-> uuid + 2, intake_submission_id |-> submission_id,
                 status |-> "requested", package_type |-> package,
                 payment_status |-> "pending", payment_session_id |-> None,
                 amount_paid |-> None, created_at |-> IsoInstant(clock),
                 updated_at |-> IsoInstant(clock)]
            projects == StoreInsertOne("projects", db.projects, project, u)
            amount == IF package \in DOMAIN PACKAGES THEN PACKAGES[package]
                      ELSE Dollars(99)
            session == create_checkout_session(
                           Cardinality(registry) + 1, amount,
                           [intake_submission_id |-> submission_id,
                            package |-> package])
            payment_tx ==
                [id |-> uuid + 3, session_id |-> session.id,
                 intake_submission_id |-> submission_id, amount |-> amount,
                 currency |-> "usd", package_type |-> package,
                 status |-> "initiated", payment_status |-> "pending",
                 created_at |-> IsoInstant(clock), updated_at |-> IsoInstant(clock)]
            transactions == StoreInsertOne("payment_transactions",
                                           db.payment_transactions, payment_tx, u)
        IN  /\ IF projects.failed
               THEN /\ Respond("submit_intake", request, 500, InternalError, TRUE)
                    /\ UNCHANGED <<db, registry, uuid>>
               ELSE IF ~config.STRIPE_API_KEY
               THEN /\ db' = [db EXCEPT !.projects = projects.storage]
                    /\ uuid' = uuid + 2
                    /\ Respond("submit_intake", request, 200, Detail("submitted"), FALSE)
                    /\ UNCHANGED registry
               ELSE /\ registry' = registry \cup {session}
                    /\ db' = [db EXCEPT !.projects = projects.storage,
                                        !.payment_transactions = transactions.storage]
                    /\ uuid' = uuid + (IF transactions.failed THEN 2 ELSE 3)
                    /\ Respond("submit_intake", request, 200, Detail("submitted"),
                               transactions.failed)
            /\ UNCHANGED <<backend, config, process, obtained, reported, storeVars,
                           clock>>

\* status.amount_total / 100
AmountPaid(amount_total) == [n |-> amount_total.n, d |-> amount_total.d * 100]

\* GET /api/payments/status/{session_id}
get_payment_status ==
    \E session_id \in {session.id : session \in registry} \cup {0},
       u \in Reachability :
        LET request == [session_id |-> session_id]
            known == {session \in registry : session.id = session_id}
            status == get_checkout_status(CHOOSE session \in known : TRUE)
            payment_tx == StoreFindOne("payment_transactions", db.payment_transactions,
                                       BySessionId(session_id), u)
            transactions ==
                StoreUpdateOne("payment_transactions", db.payment_transactions,
                               BySessionId(session_id),
                               SetFields([status |-> status.status,
                                          payment_status |-> status.payment_status,
                                          updated_at |-> IsoInstant(clock)]),
                               u)
            projects ==
                StoreUpdateOne("projects", db.projects,
                               ("intake_submission_id" :>
                                    Val(payment_tx.result.v.intake_submission_id)),
                               SetFields([payment_status |-> "paid",
                                          payment_session_id |-> session_id,
                                          amount_paid |-> AmountPaid(status.amount_total)]),
                               u)
            answer == [t |-> "status", v |-> status]
        IN  /\ CASE ~config.STRIPE_API_KEY ->
                        /\ Respond("get_payment_status", request, 500,
                                   Detail("Payment system not configured"), FALSE)
                        /\ UNCHANGED db
                 [] known = {} ->
                        /\ Respond("get_payment_status", request, 500, InternalError, FALSE)
                        /\ UNCHANGED db
                 [] payment_tx.result = Raised ->
                        /\ Respond("get_payment_status", request, 500, InternalError, TRUE)
                        /\ UNCHANGED db
                 [] payment_tx.result.t # "document" ->
                        /\ Respond("get_payment_status", request, 200, answer,
                                   payment_tx.failed)
                        /\ UNCHANGED db
                 [] transactions.result = Raised ->
                        /\ Respond("get_payment_status", request, 500, InternalError, TRUE)
                        /\ UNCHANGED db
                 [] status.payment_status # "paid" ->
                        /\ db' = [db EXCEPT !.payment_transactions = transactions.storage]
                        /\ Respond("get_payment_status", request, 200, answer,
                                   transactions.failed)
                 [] projects.result = Raised ->
                        /\ db' = [db EXCEPT !.payment_transactions = transactions.storage]
                        /\ Respond("get_payment_status", request, 500, InternalError, TRUE)
                 [] OTHER ->
                        /\ db' = [db EXCEPT !.payment_transactions = transactions.storage,
                                            !.projects = projects.storage]
                        /\ Respond("get_payment_status", request, 200, answer,
                                   transactions.failed \/ projects.failed)
            /\ UNCHANGED <<Fixed, uuid>>

NextPayments ==
    \/ (Len(db.projects) < MaxIntakes /\ submit_intake_payment)
    \/ CustomerPays
    \/ get_payment_status

SpecPayments == InitPayments /\ [][NextPayments]_vars

----------------------------------------------------------------------------
(* The objects behind the in-memory collection.  A Python dict or list is   *)
(* an object on the heap (here table, an address is an index); the list of  *)
(* _demo_storage holds addresses (demo_storage), and so does the caller of  *)
(* the collection for every document it passed in or got back (obtained).   *)

\* objects that are allocated
MaxObjects == 5

DictObject(id, list) == [kind |-> "dict", id |-> id, is_verified |-> FALSE,
                         saved_players |-> list]
ListObject(items) == [kind |-> "list", items |-> items]

\* the value of the document at address a
Deref(heap, a) ==
    [id |-> heap[a].id, is_verified |-> heap[a].is_verified,
     saved_players |-> heap[heap[a].saved_players].items]

\* the values of the stored documents, in order: what find() returns
Contents(storage, heap) == [i \in 1..Len(storage) |-> Deref(heap, storage[i])]

InitAlias ==
    /\ backend = "demo"
    /\ demo_storage = <<>>
    /\ table = <<>>
    /\ obtained = {}
    /\ pre = <<>>
    /\ last = [op |-> "startup"]
    /\ config = <<>>
    /\ process = <<>>
    /\ registry = <<>>
    /\ reported = <<>>
    /\ db = <<>>
    /\ response = <<>>
    /\ uuid = 0
    /\ clock = 0
    /\ tasks = <<>>
    /\ initial = <<>>

AliasFrame == UNCHANGED <<backend, config, process, registry, reported, appVars,
                          tasks, initial>>

Called(op) ==
    /\ pre' = Contents(demo_storage, table)
    /\ last' = [op |-> op]
    /\ AliasFrame

\* the caller builds a document and passes it to insert_one:
\* _demo_storage[self.name].append(document)
heap_insert_one ==
    \E id \in Ids :
        LET list == Len(table) + 1
            document == Len(table) + 2
        IN  /\ document <= MaxObjects
            /\ table' = table \o <<ListObject(<<>>), DictObject(id, list)>>
            /\ demo_storage' = Append(demo_storage, document)
            /\ obtained' = obtained \cup {document}
            /\ Called("insert_one")

\* find_one: return item.copy() of the first match, a new dict that holds
\* the values of the item (for a list, the address of the same list)
heap_find_one ==
    \E query \in IdQueries :
        LET i == FirstMatch(Contents(demo_storage, table), query) IN
        /\ IF i = 0
           THEN UNCHANGED <<table, obtained>>
           ELSE /\ Len(table) < MaxObjects
                /\ table' = Append(table, table[demo_storage[i]])
                /\ obtained' = obtained \cup {Len(table) + 1}
        /\ UNCHANGED demo_storage
        /\ Called("find_one")

\* find: items.copy(), or the list comprehension over items: a new list of
\* the stored dicts themselves
heap_find ==
    \E query \in {EmptyQuery} \cup IdQueries :
        /\ obtained' = obtained \cup
              {demo_storage[i] : i \in {j \in 1..Len(demo_storage) :
                                           DemoMatch(Deref(table, demo_storage[j]), query)}}
        /\ UNCHANGED <<demo_storage, table>>
        /\ Called("find")

heap_count_documents ==
    /\ UNCHANGED <<demo_storage, table, obtained>>
    /\ Called("count_documents")

\* the caller changes a document it holds: document["is_verified"] = True,
\* or document["saved_players"].append(entry)
caller_mutates ==
    \E document \in obtained :
        /\ \/ table' = [table EXCEPT ![document].is_verified = TRUE]
           \/ /\ table[table[document].saved_players].items = <<>>
              /\ table' = [table EXCEPT ![table[document].saved_players].items =
                                            <<SavedEntry(1, 1)>>]
        /\ UNCHANGED <<demo_storage, obtained>>
        /\ Called("mutate")

NextAlias ==
    \/ heap_insert_one
    \/ heap_find_one
    \/ heap_find
    \/ heap_count_documents
    \/ caller_mutates

SpecAlias == InitAlias /\ [][NextAlias]_vars

----------------------------------------------------------------------------
(* Properties *)

\* two results are the same value (the kind first: values of different
\* kinds are never compared)
Same(r1, r2) == r1.t = r2.t /\ r1.v = r2.v

\* the index in the collection as it was before the call of the document
\* the call's query selects first, 0 if none
Matched == FirstMatch(pre, last.query)

\* no document stored before the call has the id of d
FreshId(d) == \A i \in 1..Len(pre) : pre[i].id # d.id

C2_UniqueIndexEnforced ==
    (/\ backend = "demo"
     /\ "email" \in UniqueDeclared
     /\ last.op = "insert_one"
     /\ FreshId(last.document)
     /\ \E i \in 1..Len(pre) : pre[i].email = last.document.email)
        => (last.result.t = "raise" /\ Len(demo_storage) = Len(pre))

\* C3: update_one({id: i}, {"$set": S}) gives the fields named in S the values
\* of S on the matched document and changes nothing else: the other fields of
\* that document and all other documents are as before the call; a call that
\* matched nothing or was not served changes nothing.
C3_PartialUpdate ==
    (last.op = "update_one" /\ last.query \in IdQueries /\ "$set" \in DOMAIN last.update)
        => LET S == last.update["$set"]
               m == Matched
           IN  /\ Len(Collection) = Len(pre)
               /\ \A i \in 1..Len(pre) : i # m => Collection[i] = pre[i]
               /\ m # 0 =>
                    /\ DOMAIN Collection[m] \subseteq DOMAIN pre[m] \cup DOMAIN S
                    /\ DOMAIN pre[m] \subseteq DOMAIN Collection[m]
                    /\ \A k \in DOMAIN pre[m] \ DOMAIN S : Collection[m][k] = pre[m][k]
                    /\ last.failed => Collection[m] = pre[m]
                    /\ ~last.failed => \A k \in DOMAIN S : Collection[m][k] = S[k]

C3_Witness ==
    /\ last.op = "update_one"
    /\ last.query \in IdQueries
    /\ "$set" \in DOMAIN last.update
    /\ ~last.failed
    /\ backend = "demo"
    /\ Len(pre) = 2
    /\ pre[1].id = pre[2].id
    /\ Matched = 1
    /\ demo_storage[1] # pre[1]
    /\ demo_storage[2] = pre[2]

\* C4: a read through the table-service adapter whose request failed (here:
\* a request on columns of the table, for rows the table holds) does not
\* return what the same read returns when it is served and matches nothing.
C4_ReadFailureDistinguishable ==
    (/\ backend = "supabase"
     /\ last.failed
     /\ DOMAIN last.query \subseteq Columns
     /\ SelectRows(pre, last.query) # <<>>)
        => /\ last.op = "find_one"
                => ~Same(last.result, SupabaseFindOne(<<>>, ById(1), FALSE).result)
           /\ last.op = "find"
                => ~Same(last.result, SupabaseFind(<<>>, ById(1), FALSE).result)
           /\ last.op = "count_documents"
                => ~Same(last.result, SupabaseCountDocuments(<<>>, ById(1), FALSE).result)

\* C5: a write whose request failed (here: an insert, a delete or a "$set"
\* update, for a row the table holds) raises to the caller; it does not return
\* a result descriptor.
C5_WriteFailurePropagates ==
    (/\ last.op \in {"insert_one", "update_one", "delete_one"}
     /\ last.failed
     /\ DOMAIN last.update \subseteq {"$set"}
     /\ Matched # 0)
        => last.result.t = "raise"

\* the orders in which the callers can be served one after the other
Orders == {o \in [Tasks -> Tasks] : \A a, b \in Tasks : a # b => o[a] # o[b]}

\* the collection after the calls were made one after the other in order o
RECURSIVE OneAfterTheOther(_, _, _)
OneAfterTheOther(items, o, n) ==
    IF n > MaxTasks THEN items
    ELSE OneAfterTheOther(Apply(tasks[o[n]].call, items).storage, o, n + 1)

SerialOutcomes == {OneAfterTheOther(initial, o, 1) : o \in Orders}

AllDone == tasks # <<>> /\ \A t \in Tasks : tasks[t].pc = "done"

\* C6: when the concurrent callers of insert_one, update_one, delete_one and
\* create_index have all returned, the collection is in a state that the same
\* calls made one after the other, in some order, produce.
C6_Serializable == AllDone => demo_storage \in SerialOutcomes

\* two callers whose calls do not commute have both returned
C6_Witness ==
    /\ AllDone
    /\ Cardinality(SerialOutcomes) >= 2
    /\ initial # <<>>
    /\ \A t \in Tasks : tasks[t].call.op = "update_one"

\* C7: after update_one with AppendToArray(f, v1) and then with
\* AppendToArray(f, v2) on the same document, f is what it was, followed by
\* v1, v2.
C7_AppendOrder ==
    (/\ backend = "demo"
     /\ last.op = "update_one"
     /\ "$push" \in DOMAIN last.update
     /\ Matched # 0)
        => \A p \in PlayerIds :
              LET v1 == last.update["$push"]["saved_players"]
                  v2 == SavedEntry(p, 1)
                  after == DemoUpdateOne(demo_storage, last.query,
                                         AppendToArray("saved_players", v2)).storage
              IN  after[Matched].saved_players
                      = pre[Matched].saved_players \o <<v1, v2>>

\* the elements of an array that do not match {"player_id": p}, in their order
RECURSIVE Without(_, _)
Without(array, p) ==
    IF array = <<>> THEN <<>>
    ELSE IF Head(array).player_id = p
         THEN Without(Tail(array), p)
         ELSE <<Head(array)>> \o Without(Tail(array), p)

\* C8: update_one with RemoveFromArray(f, {"player_id": p}) leaves in f the
\* elements that do not match, all of them and in their order.
C8_RemoveEveryMatch ==
    (/\ backend = "demo"
     /\ last.op = "update_one"
     /\ "$pull" \in DOMAIN last.update
     /\ Matched # 0)
        => demo_storage[Matched].saved_players
              = Without(pre[Matched].saved_players,
                        last.update["$pull"]["saved_players"].player_id)

\* the documents of items that P1 or P2 matches, in their order
RECURSIVE EitherMatches(_, _, _)
EitherMatches(items, P1, P2) ==
    IF items = <<>> THEN <<>>
    ELSE IF DemoMatch(Head(items), P1) \/ DemoMatch(Head(items), P2)
         THEN <<Head(items)>> \o EitherMatches(Tail(items), P1, P2)
         ELSE EitherMatches(Tail(items), P1, P2)

\* C9: a query {"$or": [P1, P2]} selects the documents that P1 matches or P2
\* matches: find returns them, find_one the first of them, count_documents
\* their number.
C9_OrSemantics ==
    (backend = "demo" /\ "$or" \in DOMAIN last.query)
        => LET P1 == last.query["$or"].v[1]
               P2 == last.query["$or"].v[2]
               want == EitherMatches(pre, P1, P2)
           IN  /\ last.op = "find" => Same(last.result, DocumentList(want))
               /\ last.op = "count_documents" => Same(last.result, Count(Len(want)))
               /\ last.op = "find_one"
                    => Same(last.result,
                            IF want = <<>> THEN None ELSE Document(want[1]))

\* C10: the in-memory list is in insertion order and updates keep it: insert_one
\* puts the document last, update_one leaves every document at its place, and
\* find returns the matching documents in the order of the list.
C10_InsertionOrder ==
    backend = "demo"
        => /\ last.op = "insert_one" => demo_storage = Append(pre, last.document)
           /\ last.op = "update_one"
                => /\ Len(demo_storage) = Len(pre)
                   /\ \A i \in 1..Len(pre) : demo_storage[i].id = pre[i].id
           /\ \A q \in Queries :
                DemoFind(demo_storage, q).result.v
                    = SelectSeq(demo_storage, LAMBDA d : DemoMatch(d, q))
           /\ last.op = "find"
                => last.result.v = SelectSeq(pre, LAMBDA d : DemoMatch(d, last.query))

\* the scenario of the spec: p1 (unverified) then p2 (verified) inserted, p1
\* updated to verified, find({verified: true}) returns [p1, p2]
C10_Witness ==
    /\ backend = "demo"
    /\ last.op = "update_one"
    /\ last.query = ById(1)
    /\ Len(pre) = 2
    /\ pre[1].id = 1 /\ ~pre[1].is_verified
    /\ pre[2].id = 2 /\ pre[2].is_verified
    /\ LET found == DemoFind(demo_storage, ByVerified(TRUE)).result.v
       IN  Len(found) = 2 /\ found[1].id = 1 /\ found[2].id = 2

\* C20: update_one changes at most one document on every backend: of the
\* documents that satisfy the predicate only the first in storage order is
\* changed, so a served "$set" update leaves the table-service adapter's rows
\* as it leaves the in-memory list.
C20_AtMostOneModified ==
    (last.op = "update_one" /\ "$set" \in DOMAIN last.update /\ ~last.failed)
        => /\ \A i \in 1..Len(pre) : i # Matched => Collection[i] = pre[i]
           /\ Collection = DemoUpdateOne(pre, last.query, last.update).storage
           /\ last.result.v <= 1

\* C11: once the module is loaded mongo_db is bound to one of the three
\* backends, whatever the configuration, and every handle handed out since,
\* for every name, is a handle of that backend.
C11_OneBackend ==
    process.pc = "running"
        => /\ backend \in {"demo", "mongodb", "supabase"}
           /\ \A h \in obtained : BackendOf(h.class) = backend

\* handles of two names were handed out by the table-service registry, which
\* was bound over an in-memory database (DEMO_MODE and Supabase both set)
C11_Witness ==
    /\ process.pc = "running"
    /\ backend = "supabase"
    /\ config.DEMO_MODE
    /\ \E h1, h2 \in obtained : h1.name # h2.name

\* C12: the handles handed out for one name are one object, and handles for
\* different names are different objects, each working on the collection of
\* its own name (registries of server.py: DemoDB, DemoCollection.__getattr__,
\* SupabaseDB).
C12_SameHandleForSameName ==
    \A h1, h2 \in obtained :
        (h1.class # "AsyncIOMotorCollection" /\ h2.class # "AsyncIOMotorCollection")
            => /\ h1.name = h2.name => h1.instance = h2.instance
               /\ h1.name # h2.name => h1.instance # h2.instance

\* C18: what /api/health reports as "database" and /api/ as "mode" is
\* "supabase" exactly when mongo_db is the table-service adapter.
C18_ReportedBackend ==
    reported # <<>> => (reported.database = "supabase" <=> backend = "supabase")

\* the documents of a collection
Stored(collection) == {collection[i] : i \in 1..Len(collection)}

\* C13: while coach verification is required, coach_login issues no token for
\* a coach whose document is not verified, and it answers the correct
\* credentials of an unverified coach with 403 (the answer to a login whose
\* read of the coach was served).
C13_UnverifiedCoachGetsNoToken ==
    (/\ response # <<>>
     /\ response.handler = "coach_login"
     /\ config.REQUIRE_COACH_VERIFICATION)
        => /\ response.status = 200
                => /\ response.body.t = "token"
                   /\ \E c \in Stored(response.before.coaches) :
                        c.id = response.body.v.sub /\ c.is_verified
           /\ response.body.t = "token" => response.status = 200
           /\ \A c \in Stored(response.before.coaches) :
                (/\ ~response.failed
                 /\ c.email = response.request.email
                 /\ verify_password(response.request.password, c.password_hash)
                 /\ ~c.is_verified
                 /\ \A d \in Stored(response.before.coaches) : d.email = c.email => d = c)
                    => response.status = 403

\* a coach who was verified and then unverified again logs in with the
\* correct password and is answered 403
C13_Witness ==
    /\ response # <<>>
    /\ response.handler = "coach_login"
    /\ config.REQUIRE_COACH_VERIFICATION
    /\ response.status = 403
    /\ \E c \in Stored(response.before.coaches) :
            /\ c.email = response.request.email
            /\ c.email = "coach@university.edu"
            /\ backend = "demo"
            /\ ~c.is_verified

\* C14: coach_register for an email a coach document already has adds no
\* document and, when its read of the collection was served, answers 400; no
\* two documents of coaches share an email.
C14_RegisteredEmailsUnique ==
    response # <<>>
        => /\ (/\ response.handler = "coach_register"
               /\ \E c \in Stored(response.before.coaches) :
                     c.email = response.request.email)
                => /\ db.coaches = response.before.coaches
                   /\ ~response.failed => response.status = 400
           /\ \A i, j \in 1..Len(db.coaches) :
                db.coaches[i].email = db.coaches[j].email => i = j

\* C16: setup_admin inserts nothing when staff_users holds a document, and
\* staff_users never holds two admin users of setup.
C16_SetupOnlyWhenEmpty ==
    response # <<>>
        => /\ (response.handler = "setup_admin" /\ Len(response.before.staff_users) >= 1)
                => db.staff_users = response.before.staff_users
           /\ \A i, j \in 1..Len(db.staff_users) :
                (db.staff_users[i].email = "admin@hoopwithher.com"
                    /\ db.staff_users[j].email = "admin@hoopwithher.com") => i = j

\* C17: list_coaches gives the list of coach accounts to no request whose
\* token carries a role other than admin.
C17_ListCoachesAdminOnly ==
    (/\ response # <<>>
     /\ response.handler = "list_coaches"
     /\ response.request.role # "admin")
        => response.body.t # "coaches"

\* the effective tier of a coach at the instant now: the stored
\* subscription_tier, or free when none is stored or when
\* subscription_expires lies in the past
EffectiveTier(coach, now) ==
    IF "subscription_expires" \in DOMAIN coach /\ coach.subscription_expires.instant < now
    THEN "free"
    ELSE IF "subscription_tier" \in DOMAIN coach THEN coach.subscription_tier ELSE "free"

C19_SavedPlayerLimits ==
    \A c \in Stored(db.coaches) :
        /\ EffectiveTier(c, clock) = "free" => Len(c.saved_players) <= FreeSaveLimit
        /\ EffectiveTier(c, clock) = "basic" => Len(c.saved_players) <= BasicSaveLimit

\* C21: on the table-service adapter a served read with a query
\* {"$or": [P1, P2]} returns the documents that P1 matches or P2 matches:
\* find all of them, find_one the first, count_documents their number.
C21_AdapterMatchesReference ==
    backend = "supabase"
        => \A q \in OrQueries :
              LET want == EitherMatches(table, q["$or"].v[1], q["$or"].v[2]) IN
              /\ Same(SupabaseFind(table, q, FALSE).result, DocumentList(want))
              /\ Same(SupabaseFindOne(table, q, FALSE).result,
                      IF want = <<>> THEN None ELSE Document(want[1]))
              /\ Same(SupabaseCountDocuments(table, q, FALSE).result, Count(Len(want)))

\* C22: on the table-service adapter a served update_one by id with
\* AppendToArray leaves the array of the row followed by the new element, and
\* one with RemoveFromArray leaves the elements that do not match.
C22_ArrayUpdateOnAdapter ==
    backend = "supabase"
        => \A i \in 1..Len(table) :
              LET appended == SupabaseUpdateOne(table, ById(table[i].id),
                                  AppendToArray("saved_players", SavedEntry(2, 2)),
                                  FALSE, TableUnique("coaches")).storage
                  removed == SupabaseUpdateOne(table, ById(table[i].id),
                                  RemoveFromArray("saved_players", 1),
                                  FALSE, TableUnique("coaches")).storage
              IN  /\ appended[i].saved_players
                        = Append(table[i].saved_players, SavedEntry(2, 2))
                  /\ removed[i].saved_players = Without(table[i].saved_players, 1)

\* C23: a listing with no filter, answered without a failed store call, gives
\* the players newest first (ties in insertion order), the first skip of them
\* dropped and at most page_size of them returned, and the total of all.
C23_FindSortSkipLimit ==
    (/\ response # <<>>
     /\ response.handler = "list_players"
     /\ ~response.failed
     /\ response.request.position = ""
     /\ response.request.search = <<>>)
        => /\ response.status = 200
           /\ response.body.v.total = Len(response.before.players)
           /\ response.body.v.players
                = SkipLimit(SortNewestFirst(response.before.players),
                            (response.request.page - 1) * response.request.page_size,
                            response.request.page_size)

\* C24: a listing asked for with a position and a search term returns only
\* players that have the position and whose name holds the search term.
C24_PositionAndSearch ==
    (/\ response # <<>>
     /\ response.handler = "list_players"
     /\ response.status = 200
     /\ response.request.position # ""
     /\ response.request.search # <<>>)
        => \A i \in 1..Len(response.body.v.players) :
              LET player == response.body.v.players[i] IN
              /\ player.primary_position = response.request.position
              /\ RegexSearch(response.request.search, player.player_name)

\* C25: an insert, update or delete through a handle of one store changes
\* nothing of what the handles of the other store return.
C25_IndependentStores ==
    last.op \in {"insert_one", "update_one", "delete_one"} /\ "store" \in DOMAIN last
        => \A other \in Stores \ {last.store} :
              SeenThrough(other, last.name, db) = SeenThrough(other, last.name, pre)

\* C26: the saved_players of a coach hold at most one entry per player, and
\* after save_player answered 'saved' (no store call having failed) the coach
\* of the token holds an entry for the player.
C26_OneEntryPerPlayer ==
    /\ \A c \in Stored(db.coaches) :
          \A i, j \in 1..Len(c.saved_players) :
              c.saved_players[i].player_id = c.saved_players[j].player_id => i = j
    /\ (/\ response # <<>>
        /\ response.handler = "save_player"
        /\ response.status = 200
        /\ ~response.failed)
          => \E c \in Stored(db.coaches) :
                /\ c.id = response.request.token.sub
                /\ \E i \in 1..Len(c.saved_players) :
                      c.saved_players[i].player_id = response.request.player_id

\* the reset_password requests that were answered with success for a token
Succeeded(token) ==
    {r \in Resets : tasks[r].pc = "done" /\ tasks[r].status = 200 /\ tasks[r].token = token}

\* C27: a password-reset token leads to at most one successful
\* reset_password, also when requests with it are in flight together.
C27_TokenUsedOnce ==
    \A i \in 1..Len(db.password_reset_tokens) :
        Cardinality(Succeeded(db.password_reset_tokens[i].token)) <= 1

\* C28: a coach holds the subscription of a checkout session only if the
\* metadata of the session (coach_id) names that coach.
C28_SubscriptionOfOwnSession ==
    \A c \in Stored(db.coaches) :
        "subscription_session_id" \in DOMAIN c
            => \E session \in registry :
                  /\ session.id = c.subscription_session_id
                  /\ session.metadata.coach_id = c.id

\* C29: the amount_paid of a project that get_payment_status marked paid is
\* the amount of the payment transaction of the session.
C29_AmountPaidIsTransactionAmount ==
    \A p \in Stored(db.projects) :
        p.payment_status = "paid"
            => \E tx \in Stored(db.payment_transactions) :
                  /\ tx.session_id = p.payment_session_id
                  /\ SameAmount(p.amount_paid, tx.amount)

\* C30: a read of the in-memory collection, and a change the caller makes to
\* a document it passed to insert_one or got from find_one or find, leaves
\* the stored documents as they were.
C30_DocumentsIsolated ==
    last.op \in {"find_one", "find", "count_documents", "mutate"}
        => Contents(demo_storage, table) = pre

====
